---- MODULE Spec2Model ----
(***************************************************************************)
(* Model of library/l3fw_cluster.py: one reconciliation run of the         *)
(* l3fw_cluster module (StonesoftCluster.exec_module) against the remote   *)
(* management service, repeated with the same playbook document.            *)
(*                                                                         *)
(* Python None and an absent dictionary key are the string "None"; a       *)
(* missing nodeid (and the nodeid of a CVI address, which is None) is 0;   *)
(* a resolved element handle (href) is the tuple <<"href", type, name>>    *)
(* and the absent handle is <<>>.                                          *)
(***************************************************************************)
EXTENDS Integers, Sequences, FiniteSets, TLC

None == "None"
NoHref == <<>>

\* len(engine.nodes): the number of cluster members of the remote engine.
ClusterSize == 2

\* ---------------------------------------------------------------- helpers

RECURSIVE SeqToSet(_)
SeqToSet(s) == IF s = <<>> THEN {} ELSE {Head(s)} \cup SeqToSet(Tail(s))

RECURSIVE FilterSeq(_, _)
\* [x for x in s if x \notin drop]
FilterSeq(s, drop) ==
  IF s = <<>> THEN <<>>
  ELSE IF Head(s) \in drop THEN FilterSeq(Tail(s), drop)
       ELSE <<Head(s)>> \o FilterSeq(Tail(s), drop)

RECURSIVE SetToSeq(_)
\* some enumeration of a finite set (the order the remote service lists it)
SetToSeq(S) ==
  IF S = {} THEN <<>>
  ELSE LET x == CHOOSE y \in S : TRUE IN <<x>> \o SetToSeq(S \ {x})

Truthy(v) == v # None /\ v # ""

\* ------------------------------------------------- the element database
\* The elements the management service knows, by (type, name).  Resolution
\* of a name that is not here is a miss.
Elements ==
  { <<"network", "net1">>, <<"network", "net2">>, <<"host", "hostb">>,
    <<"route_map", "rm1">>, <<"external_bgp_peer", "bgppeer">>,
    <<"single_fw,fw_cluster", "myfw">> }

Href(type, name) == <<"href", type, name>>

\* zone_helper(name): the handle of the zone of that name (created on demand)
zone_helper(name) == IF Truthy(name) THEN Href("interface_zone", name) ELSE NoHref

\* Cache (ansible.module_utils.stonesoft_util): resolved handles and the
\* list of (type, name) pairs that failed to resolve.
EmptyCache == [found |-> {}, missing |-> <<>>]

Cache_add_entry(cache, type, name) ==
  IF <<type, name>> \in Elements
  THEN [cache EXCEPT !.found = @ \cup {<<type, name>>}]
  ELSE [cache EXCEPT !.missing = Append(@, <<type, name>>)]

RECURSIVE Cache_add(_, _)
\* entries: the (type, name) pairs of a {type: [names]} dictionary
Cache_add(cache, entries) ==
  IF entries = <<>> THEN cache
  ELSE Cache_add(Cache_add_entry(cache, Head(entries)[1], Head(entries)[2]),
                 Tail(entries))

\* cache.get(type, name).href, None when the name is None or was a miss
Cache_get(cache, type, name) ==
  IF <<type, name>> \in cache.found THEN Href(type, name) ELSE NoHref

\* --------------------------------------------------- the desired document

Node(a, m, id) == [address |-> a, network_value |-> m, nodeid |-> id]

\* YamlInterface.__init__: every attribute defaults to None, nodes to []
YamlInterface(id, vlan, cvi, mask, mac, zone, nodes) ==
  [interface_id |-> id, vlan_id |-> vlan, cluster_virtual |-> cvi,
   network_value |-> mask, macaddress |-> mac, zone_ref |-> zone,
   nodes |-> nodes]

is_vlan(y) == Truthy(y.vlan_id)

\* The value standing for "no entry" (Python None) where an entry is expected.
NoYaml == YamlInterface(None, None, None, None, None, None, <<>>)

RECURSIVE Interfaces_get(_, _)
\* Interfaces.get: the first entry with that interface_id, None if none
Interfaces_get(itfs, interface_id) ==
  IF itfs = <<>> THEN NoYaml
  ELSE IF Head(itfs).interface_id = interface_id THEN Head(itfs)
       ELSE Interfaces_get(Tail(itfs), interface_id)

RECURSIVE Interfaces_get_vlan(_, _)
\* Interfaces.get_vlan: the first entry with that vlan_id, None if none
Interfaces_get_vlan(itfs, vlan_id) ==
  IF itfs = <<>> THEN NoYaml
  ELSE IF Head(itfs).vlan_id = vlan_id THEN Head(itfs)
       ELSE Interfaces_get_vlan(Tail(itfs), vlan_id)

RECURSIVE Interfaces_vlan_ids(_)
\* Interfaces.vlan_ids: the vlan_id of every entry that has one, in order
Interfaces_vlan_ids(itfs) ==
  IF itfs = <<>> THEN <<>>
  ELSE (IF Truthy(Head(itfs).vlan_id) THEN <<Head(itfs).vlan_id>> ELSE <<>>)
       \o Interfaces_vlan_ids(Tail(itfs))

RECURSIVE Group(_, _)
\* playbook[interface_id]: the entries of the document with that id, in order
Group(itfs, interface_id) ==
  IF itfs = <<>> THEN <<>>
  ELSE (IF Head(itfs).interface_id = interface_id THEN <<Head(itfs)>> ELSE <<>>)
       \o Group(Tail(itfs), interface_id)

\* playbook.keys(): str(interface.get('interface_id')) of every entry
PlaybookKeys(itfs) == {itfs[i].interface_id : i \in 1..Len(itfs)}

\* exec_module's node_req test: all(k in node for k in node_req)
NodeComplete(n) ==
  n.address # None /\ n.network_value # None /\ n.nodeid # 0

SpecComplete(y) ==
  y.interface_id # None /\ \A i \in 1..Len(y.nodes) : NodeComplete(y.nodes[i])

\* ------------------------------------------------ the remote interfaces
\* A top-level interface of the engine: flat addresses (CVI has nodeid 0),
\* or a collection of VLAN sub-interfaces, each with its own addresses.

AbsentInterface ==
  [exists |-> FALSE, addrs |-> <<>>, zone_ref |-> NoHref, macaddress |-> None,
   vlans |-> <<>>]

has_interfaces(itf) == itf.addrs # <<>>
has_vlan(itf) == itf.vlans # <<>>

\* The address entries a definition asks for: the CVI (when an address and
\* a mask are given) followed by the node addresses.
CviOf(y) ==
  IF Truthy(y.cluster_virtual) /\ Truthy(y.network_value)
  THEN <<Node(y.cluster_virtual, y.network_value, 0)>> ELSE <<>>

AddressesOf(y) == CviOf(y) \o y.nodes

\* physical_interface.add_cluster_virtual_interface(**yaml.as_dict())
add_cluster_virtual_interface(y) ==
  [exists |-> TRUE, addrs |-> AddressesOf(y), zone_ref |-> zone_helper(y.zone_ref),
   macaddress |-> IF CviOf(y) # <<>> THEN y.macaddress ELSE None, vlans |-> <<>>]

VlanOf(y) ==
  [vlan_id |-> y.vlan_id, zone_ref |-> zone_helper(y.zone_ref),
   addrs |-> AddressesOf(y)]

RECURSIVE VlanIndex(_, _)
\* position of the VLAN with that id in a VLAN list, 0 when absent
VlanIndex(vlans, vlan_id) ==
  IF vlans = <<>> THEN 0
  ELSE IF vlans[Len(vlans)].vlan_id = vlan_id THEN Len(vlans)
       ELSE VlanIndex(SubSeq(vlans, 1, Len(vlans) - 1), vlan_id)

\* add_vlan_to_cluster / add_ipaddress_and_vlan_to_cluster(**yaml.as_dict()):
\* the interface (created when absent) gains the VLAN with its addresses.
add_vlan_to_cluster(itf, y) ==
  LET i == VlanIndex(itf.vlans, y.vlan_id) IN
  [itf EXCEPT !.exists = TRUE,
              !.vlans = IF i = 0 THEN Append(@, VlanOf(y))
                        ELSE [@ EXCEPT ![i] = VlanOf(y)]]

\* ------------------------------------------------------ VLAN reconcilers

\* The VLAN the builder works on: the VLAN of that id, or a new one
\* (add_cvi_to_vlan creates it without a zone, add_vlan_only with the zone).
BuilderVlan(itf, y, i, withCvi) ==
  IF i = 0
  THEN [vlan_id |-> y.vlan_id,
        zone_ref |-> IF withCvi THEN NoHref ELSE zone_helper(y.zone_ref),
        addrs |-> <<>>]
  ELSE itf.vlans[i]

BuilderStore(itf, y, i, withCvi, built) ==
  [itf EXCEPT
     !.macaddress = IF withCvi /\ Truthy(y.macaddress) THEN y.macaddress ELSE @,
     !.vlans = IF i = 0 THEN Append(@, built) ELSE [@ EXCEPT ![i] = built]]

BuilderAdd(itf, y, i, withCvi) ==
  BuilderStore(itf, y, i, withCvi,
               [BuilderVlan(itf, y, i, withCvi) EXCEPT !.addrs = @ \o AddressesOf(y)])

\* create_cluster_vlan_interface(interface, yaml): the builder adds the CVI
\* (add_cvi_to_vlan) or the bare VLAN (add_vlan_only), then one NDI per node
\* (add_ndi_to_vlan).  Result: [updated, itf].
create_cluster_vlan_interface(itf, y) ==
  IF (Truthy(y.cluster_virtual) /\ Truthy(y.network_value)) \/ y.nodes # <<>>
  THEN [updated |-> TRUE,
        itf |-> BuilderAdd(itf, y, VlanIndex(itf.vlans, y.vlan_id),
                           Truthy(y.cluster_virtual) /\ Truthy(y.network_value))]
  ELSE [updated |-> FALSE, itf |-> itf]

\* The zone part of update_cluster_vlan_interface: [zone_ref, changed]
UpdateVlanZone(vlan, y) ==
  IF vlan.zone_ref # NoHref /\ ~Truthy(y.zone_ref)
  THEN [zone_ref |-> NoHref, changed |-> TRUE]
  ELSE IF vlan.zone_ref = NoHref /\ Truthy(y.zone_ref)
  THEN [zone_ref |-> zone_helper(y.zone_ref), changed |-> TRUE]
  ELSE IF vlan.zone_ref # NoHref /\ Truthy(y.zone_ref)
          /\ zone_helper(y.zone_ref) # vlan.zone_ref
  THEN [zone_ref |-> zone_helper(y.zone_ref), changed |-> TRUE]
  ELSE [zone_ref |-> vlan.zone_ref, changed |-> FALSE]

\* "if x != interface.address: interface.update(address=x); changes = True, False"
\* on st = [addr, changes], changes = <<was_changed, network>>
SetAddress(st, address) ==
  IF st.addr.address # address
  THEN [addr |-> [st.addr EXCEPT !.address = address], changes |-> <<TRUE, FALSE>>]
  ELSE st

\* "if m != interface.network_value: interface.update(network_value=m);
\*  changes = True, True"
SetMask(st, mask) ==
  IF st.addr.network_value # mask
  THEN [addr |-> [st.addr EXCEPT !.network_value = mask], changes |-> <<TRUE, TRUE>>]
  ELSE st

RECURSIVE UpdateNodeLoop(_, _, _)
\* "for node in nodes": st = [addr, changes]
UpdateNodeLoop(nodes, st, k) ==
  IF k > Len(nodes) THEN st
  ELSE IF nodes[k].nodeid = st.addr.nodeid
  THEN UpdateNodeLoop(nodes,
         SetMask(SetAddress(st, nodes[k].address), nodes[k].network_value), k + 1)
  ELSE UpdateNodeLoop(nodes, st, k + 1)

\* One pass of "for interface in self.interfaces": [addr, changes]
UpdateVlanAddress(addr, y, changes) ==
  IF Truthy(y.cluster_virtual) /\ addr.nodeid = 0
  THEN IF Truthy(y.network_value)
       THEN SetMask(SetAddress([addr |-> addr, changes |-> changes], y.cluster_virtual),
                    y.network_value)
       ELSE SetAddress([addr |-> addr, changes |-> changes], y.cluster_virtual)
  ELSE IF y.nodes # <<>>
  THEN UpdateNodeLoop(y.nodes, [addr |-> addr, changes |-> changes], 1)
  ELSE [addr |-> addr, changes |-> changes]

AddressStep(addrs, k, r) == [addrs |-> [addrs EXCEPT ![k] = r.addr], changes |-> r.changes]

RECURSIVE UpdateVlanAddresses(_, _, _)
\* the loop over the remote addresses, in the order the remote lists them:
\* st = [addrs, changes]
UpdateVlanAddresses(st, y, k) ==
  IF k > Len(st.addrs) THEN st
  ELSE UpdateVlanAddresses(
         AddressStep(st.addrs, k, UpdateVlanAddress(st.addrs[k], y, st.changes)), y, k + 1)

\* An update that clears the addresses only when the definition has no
\* cluster-virtual address either
UpdateVlanWithKeepingCvi(vlan, y, z) ==
  IF y.nodes = <<>> /\ vlan.addrs # <<>> /\ ~Truthy(y.cluster_virtual)
  THEN [addrs |-> <<>>, changes |-> <<TRUE, TRUE>>]
  ELSE UpdateVlanAddresses([addrs |-> vlan.addrs, changes |-> <<z.changed, FALSE>>], y, 1)

UpdateVlanWith(vlan, y, z) ==
  IF y.nodes = <<>> /\ vlan.addrs # <<>>
  THEN [addrs |-> <<>>, changes |-> <<TRUE, TRUE>>]
  ELSE UpdateVlanAddresses([addrs |-> vlan.addrs, changes |-> <<z.changed, FALSE>>], y, 1)

VlanResult(vlan, z, r) ==
  [vlan |-> [vlan EXCEPT !.zone_ref = z.zone_ref, !.addrs = r.addrs],
   changes |-> r.changes]

VlanWithZone(vlan, y, z) == VlanResult(vlan, z, UpdateVlanWith(vlan, y, z))

\* update_cluster_vlan_interface(vlan, yaml): [vlan, changes]
update_cluster_vlan_interface(vlan, y) == VlanWithZone(vlan, y, UpdateVlanZone(vlan, y))

\* delete_vlan_interface(vlan): [fault, vlans, changes].  With addresses on
\* the VLAN the local vlan_str is read before it is assigned
\* (UnboundLocalError): an internal fault, nothing is removed.
delete_vlan_interface(vlans, vlan) ==
  IF vlan.addrs # <<>>
  THEN [fault |-> TRUE, vlans |-> vlans, changes |-> <<TRUE, TRUE>>]
  ELSE [fault |-> FALSE,
        vlans |-> FilterSeq(vlans, {v \in SeqToSet(vlans) : v.vlan_id = vlan.vlan_id}),
        changes |-> <<TRUE, FALSE>>]

\* ------------------------------------------------------------- routing
\* The routing table of the engine: entries <<"Interface", id>> and
\* <<"VLAN", id, vlan_id>> (the name "VLAN {id}.{vlan_id}"), each a list of
\* networks; the remote service flags a network invalid once no address of
\* the interface lies in it.

Networks(addrs) ==
  {addrs[i].network_value : i \in 1..Len(addrs)} \ {None}

VlanRouteName(id, vlan_id) == <<"VLAN", id, vlan_id>>

ConfiguredNets(itf, name) ==
  IF ~itf.exists THEN {}
  ELSE IF name[1] = "Interface" THEN Networks(itf.addrs)
  ELSE LET i == VlanIndex(itf.vlans, name[3])
       IN IF i = 0 THEN {} ELSE Networks(itf.vlans[i].addrs)

RouteNames(routes) == {routes[i].name : i \in 1..Len(routes)}

\* What the remote service does to the routing table when an interface is
\* stored: known networks are re-flagged, new ones are added as valid.
RefreshRoutes(routes, id, itf) ==
  LET names == {<<"Interface", id>>}
               \cup {VlanRouteName(id, itf.vlans[i].vlan_id) : i \in 1..Len(itf.vlans)}
      reflag(r) ==
        IF r.name[2] # id THEN r
        ELSE LET nets == ConfiguredNets(itf, r.name)
                 old == {r.networks[i].network : i \in 1..Len(r.networks)}
             IN [r EXCEPT !.networks =
                   [i \in 1..Len(r.networks) |->
                      [network |-> r.networks[i].network,
                       invalid |-> r.networks[i].network \notin nets]]
                   \o [j \in 1..Cardinality(nets \ old) |->
                         [network |-> SetToSeq(nets \ old)[j], invalid |-> FALSE]]]
      kept == [i \in 1..Len(routes) |-> reflag(routes[i])]
      fresh == SetToSeq({n \in names : n \notin RouteNames(routes)
                                       /\ ConfiguredNets(itf, n) # {}})
  IN kept \o [j \in 1..Len(fresh) |->
                [name |-> fresh[j],
                 networks |-> [k \in 1..Cardinality(ConfiguredNets(itf, fresh[j])) |->
                                 [network |-> SetToSeq(ConfiguredNets(itf, fresh[j]))[k],
                                  invalid |-> FALSE]]]]

Call(op, arg, isRemote) == [op |-> op, arg |-> arg, remote |-> isRemote]

RECURSIVE InvalidNetCalls(_, _)
InvalidNetCalls(name, nets) ==
  IF nets = <<>> THEN <<>>
  ELSE (IF Head(nets).invalid
        THEN <<Call("route_network.delete", <<name, Head(nets).network>>, TRUE)>>
        ELSE <<>>) \o InvalidNetCalls(name, Tail(nets))

ValidNets(nets) ==
  FilterSeq(nets, {n \in SeqToSet(nets) : n.invalid})

\* An inner loop that deletes the whole entry whatever it holds
RemoveRouteWhole(routes, name) ==
  [routes |-> FilterSeq(routes, {r \in SeqToSet(routes) : r.name = name}),
   calls |-> IF name \in RouteNames(routes)
             THEN <<Call("route.delete", name, TRUE)>> ELSE <<>>]

RECURSIVE RemoveRoute(_, _)
\* remove_routes, inner loop for one int_id: [routes, calls]
RemoveRoute(routes, name) ==
  IF routes = <<>> THEN [routes |-> <<>>, calls |-> <<>>]
  ELSE
    LET r == Head(routes)
        rest == RemoveRoute(Tail(routes), name)
    IN IF r.name = name
       THEN IF Len(r.networks) > 1
            THEN [routes |-> <<[r EXCEPT !.networks = ValidNets(@)]>> \o rest.routes,
                  calls |-> InvalidNetCalls(r.name, r.networks) \o rest.calls]
            ELSE [routes |-> rest.routes,
                  calls |-> <<Call("route.delete", r.name, TRUE)>> \o rest.calls]
       ELSE [routes |-> <<r>> \o rest.routes, calls |-> rest.calls]

RECURSIVE remove_routes(_, _)
\* remove_routes(engine, routes_to_remove): [routes, calls]
remove_routes(routes, routes_to_remove) ==
  IF routes_to_remove = <<>> THEN [routes |-> routes, calls |-> <<>>]
  ELSE LET one == RemoveRoute(routes, Head(routes_to_remove))
           more == remove_routes(one.routes, Tail(routes_to_remove))
       IN [routes |-> more.routes, calls |-> one.calls \o more.calls]

\* ------------------------------------------------- update_interfaces
\* The remote service refuses an interface call whose definition lacks a
\* required field (SMCException); everything else it stores as given.
Accepts(y) == SpecComplete(y)

\* interface.change_cluster_interface(...): full replace of the addresses,
\* MAC and zone; reports whether anything differed.
change_cluster_interface(itf, y) ==
  [itf EXCEPT !.addrs = AddressesOf(y),
              !.zone_ref = zone_helper(y.zone_ref),
              !.macaddress = IF CviOf(y) # <<>> THEN y.macaddress ELSE None]

\* interface.reset_interface(): every address is removed
reset_interface(itf) == [itf EXCEPT !.addrs = <<>>, !.macaddress = None]

Outcome(itf, changed, calls, outcome, rtr) ==
  [itf |-> itf, changed |-> changed, calls |-> calls, outcome |-> outcome,
   routes_to_remove |-> rtr]

\* "if updated: needs_update = True; if network: routes_to_remove.append(...)"
\* on st = [itf, needs_update, routes_to_remove, fault]
Note(st, id, vlan, itf, updated, network) ==
  [itf |-> itf,
   needs_update |-> st.needs_update \/ updated,
   routes_to_remove |->
     IF updated /\ network
     THEN Append(st.routes_to_remove, VlanRouteName(id, vlan.vlan_id))
     ELSE st.routes_to_remove,
   fault |-> FALSE]

NoteCreate(st, id, vlan, c) == Note(st, id, vlan, c.itf, c.updated, FALSE)

NoteUpdate(st, id, vlan, u) ==
  Note(st, id, vlan,
       [st.itf EXCEPT !.vlans[VlanIndex(st.itf.vlans, vlan.vlan_id)] = u.vlan],
       u.changes[1], u.changes[2])

NoteDelete(st, id, vlan, d) ==
  IF d.fault THEN [st EXCEPT !.fault = TRUE]
  ELSE Note(st, id, vlan, [st.itf EXCEPT !.vlans = d.vlans], d.changes[1], d.changes[2])

\* The body of "for vlan in vlan_interfaces"
VlanStep(st, id, vlan, yaml) ==
  IF yaml # NoYaml
  THEN IF vlan.addrs = <<>>
       THEN NoteCreate(st, id, vlan, create_cluster_vlan_interface(st.itf, yaml))
       ELSE NoteUpdate(st, id, vlan, update_cluster_vlan_interface(vlan, yaml))
  ELSE NoteDelete(st, id, vlan, delete_vlan_interface(st.itf.vlans, vlan))

RECURSIVE VlanLoop(_, _, _, _, _)
\* "for vlan in vlan_interfaces": st = [itf, needs_update, routes_to_remove, fault]
VlanLoop(snapshot, k, st, ifs, id) ==
  IF k > Len(snapshot) \/ st.fault THEN st
  ELSE VlanLoop(snapshot, k + 1,
                VlanStep(st, id, snapshot[k], Interfaces_get_vlan(ifs, snapshot[k].vlan_id)),
                ifs, id)

RECURSIVE MissingVlans(_, _, _)
\* "for vlan in missing_vlans: create_cluster_vlan_interface(...)"
MissingVlans(missing, itf, ifs) ==
  IF missing = <<>> THEN itf
  ELSE MissingVlans(Tail(missing),
         create_cluster_vlan_interface(itf, Interfaces_get_vlan(ifs, Head(missing))).itf,
         ifs)

VlanIds(itf) == {itf.vlans[i].vlan_id : i \in 1..Len(itf.vlans)}

\* "if needs_update: interface.update(); changed = True"
FinishVlans(itf, ifs, id, st, missing_vlans) ==
  IF st.fault THEN Outcome(itf, FALSE, <<>>, "fault", <<>>)
  ELSE IF st.needs_update \/ missing_vlans # <<>>
  THEN Outcome(MissingVlans(missing_vlans, st.itf, ifs), TRUE,
               <<Call("interface.update", id, TRUE)>>, "ok", st.routes_to_remove)
  ELSE Outcome(itf, FALSE, <<>>, "ok", st.routes_to_remove)

AfterVlanLoop(itf, ifs, id, st) ==
  FinishVlans(itf, ifs, id, st, FilterSeq(Interfaces_vlan_ids(ifs), VlanIds(st.itf)))

\* The VLAN-collection branch of update_interfaces for one interface
ReconcileVlans(itf, ifs, id) ==
  AfterVlanLoop(itf, ifs, id,
                VlanLoop(itf.vlans, 1,
                         [itf |-> itf, needs_update |-> FALSE,
                          routes_to_remove |-> <<>>, fault |-> FALSE], ifs, id))

RECURSIVE CreateMissing(_, _, _)
\* The InterfaceNotFound handler: one add call per definition of the group
CreateMissing(ifs, itf, calls) ==
  IF ifs = <<>> THEN Outcome(itf, calls # <<>>, calls, "ok", <<>>)
  ELSE IF ~Accepts(Head(ifs))
  THEN Outcome(itf, calls # <<>>,
               Append(calls, Call(IF is_vlan(Head(ifs)) THEN "add_vlan_to_cluster"
                                  ELSE "add_cluster_virtual_interface",
                                  Head(ifs).interface_id, TRUE)),
               "failed", <<>>)
  ELSE IF is_vlan(Head(ifs))
  THEN CreateMissing(Tail(ifs), add_vlan_to_cluster(itf, Head(ifs)),
                     Append(calls, Call("add_vlan_to_cluster", Head(ifs).interface_id, TRUE)))
  ELSE CreateMissing(Tail(ifs),
                     [add_cluster_virtual_interface(Head(ifs)) EXCEPT !.vlans = itf.vlans],
                     Append(calls, Call("add_cluster_virtual_interface",
                                        Head(ifs).interface_id, TRUE)))

\* One remote call on the interface: refused, or stored with its result
Issue(itf, yaml, op, id, new, differs) ==
  IF Accepts(yaml)
  THEN Outcome(new, differs, <<Call(op, id, differs)>>, "ok", <<>>)
  ELSE Outcome(itf, FALSE, <<Call(op, id, FALSE)>>, "failed", <<>>)

Changed(itf, yaml, id, new) ==
  Issue(itf, yaml, "change_cluster_interface", id, new, new # itf)

\* The try block with a flat branch that does not look at interface.has_vlan
ReconcileExistingUnguarded(itf, ifs, id, yaml) ==
  IF ~has_interfaces(itf) /\ ~has_vlan(itf) /\ Truthy(yaml.vlan_id)
  THEN Issue(itf, yaml, "add_ipaddress_and_vlan_to_cluster", id,
             add_vlan_to_cluster(itf, yaml), TRUE)
  ELSE IF ~has_interfaces(itf) /\ ~has_vlan(itf)
          /\ ((Truthy(yaml.cluster_virtual) /\ Truthy(yaml.network_value)
               /\ Truthy(yaml.macaddress)) \/ Len(yaml.nodes) # 0)
  THEN Issue(itf, yaml, "add_cluster_virtual_interface", id,
             add_cluster_virtual_interface(yaml), TRUE)
  ELSE IF 0 <= Len(yaml.nodes) /\ Len(yaml.nodes) <= ClusterSize
  THEN IF Len(yaml.nodes) # 0
       THEN Changed(itf, yaml, id, change_cluster_interface(itf, yaml))
       ELSE IF has_interfaces(itf)
       THEN Outcome(reset_interface(itf), TRUE,
                    <<Call("reset_interface", id, TRUE)>>, "ok", <<>>)
       ELSE Outcome(itf, FALSE, <<>>, "ok", <<>>)
  ELSE IF has_vlan(itf) THEN ReconcileVlans(itf, ifs, id)
  ELSE Outcome(itf, FALSE, <<>>, "ok", <<>>)

\* The try block of update_interfaces for an interface the engine has
ReconcileExisting(itf, ifs, id, yaml) ==
  IF ~has_interfaces(itf) /\ ~has_vlan(itf) /\ Truthy(yaml.vlan_id)
  THEN Issue(itf, yaml, "add_ipaddress_and_vlan_to_cluster", id,
             add_vlan_to_cluster(itf, yaml), TRUE)
  ELSE IF ~has_interfaces(itf) /\ ~has_vlan(itf)
          /\ ((Truthy(yaml.cluster_virtual) /\ Truthy(yaml.network_value)
               /\ Truthy(yaml.macaddress)) \/ Len(yaml.nodes) # 0)
  THEN Issue(itf, yaml, "add_cluster_virtual_interface", id,
             add_cluster_virtual_interface(yaml), TRUE)
  ELSE IF ~has_vlan(itf) /\ 0 <= Len(yaml.nodes) /\ Len(yaml.nodes) <= ClusterSize
  THEN IF Len(yaml.nodes) # 0
       THEN Changed(itf, yaml, id, change_cluster_interface(itf, yaml))
       ELSE IF has_interfaces(itf)
       THEN Outcome(reset_interface(itf), TRUE,
                    <<Call("reset_interface", id, TRUE)>>, "ok", <<>>)
       ELSE Outcome(itf, FALSE, <<>>, "ok", <<>>)
  ELSE IF has_vlan(itf) THEN ReconcileVlans(itf, ifs, id)
  ELSE Outcome(itf, FALSE, <<>>, "ok", <<>>)

\* One iteration of "for interface_id, interfaces in playbook.items()"
ReconcileGroup(itf, ifs, id) ==
  IF ~itf.exists THEN CreateMissing(ifs, itf, <<>>)
  ELSE ReconcileExisting(itf, ifs, id, Interfaces_get(ifs, id))

\* ------------------------------------------------- engine-wide settings
\* A desired toggle is "true", "false" or None; the engine's status is a
\* Boolean.  eng is the cached engine data the run edits; engine.update()
\* stores it.

\* A toggle that takes an unspecified value for false
UpdateToggleUnspecifiedOff(desired, status, name) ==
  IF ~status /\ desired = "true"
  THEN [status |-> TRUE, calls |-> <<Call("enable", name, FALSE)>>]
  ELSE IF status /\ desired # "true"
  THEN [status |-> FALSE, calls |-> <<Call("disable", name, FALSE)>>]
  ELSE [status |-> status, calls |-> <<>>]

\* One toggle of update_general: [status, calls]
UpdateToggle(desired, status, name) ==
  IF desired = None THEN [status |-> status, calls |-> <<>>]
  ELSE IF ~status /\ desired = "true"
  THEN [status |-> TRUE, calls |-> <<Call("enable", name, FALSE)>>]
  ELSE IF status /\ desired # "true"
  THEN [status |-> FALSE, calls |-> <<Call("disable", name, FALSE)>>]
  ELSE [status |-> status, calls |-> <<>>]

SymDiff(A, B) == (A \ B) \cup (B \ A)

\* update_general(engine): [eng, changed, calls]
update_general(eng, d) ==
  LET nat == UpdateToggle(d.default_nat, eng.default_nat, "default_nat")
      rep == UpdateToggle(d.file_reputation, eng.file_reputation, "file_reputation")
      av == UpdateToggle(d.antivirus, eng.antivirus, "antivirus")
      dnsdiff == d.domain_server_address # <<>>
                 /\ SymDiff(SeqToSet(eng.dns), SeqToSet(d.domain_server_address)) # {}
      calls == nat.calls \o rep.calls \o av.calls
               \o (IF dnsdiff THEN <<Call("dns.replace", "dns", FALSE)>> ELSE <<>>)
  IN [eng |-> [eng EXCEPT !.default_nat = nat.status,
                          !.file_reputation = rep.status,
                          !.antivirus = av.status,
                          !.dns = IF dnsdiff THEN d.domain_server_address ELSE @],
      changed |-> calls # <<>>,
      calls |-> calls]

\* A YAML scalar of the document: an integer (- 1) or a string (- '2.4')
YamlInt(n) == <<"int", n>>
YamlStr(s) == <<"str", s>>

Digits == <<"0", "1", "2", "3">>

\* str(x) of a YAML scalar
str(v) == IF v[1] = "int" THEN Digits[v[2] + 1] ELSE v[2]

\* set(map(str, self.snmp.get('snmp_interface', [])))
yaml_snmp_interfaces(sn) == {str(v) : v \in SeqToSet(sn.snmp_interface)}

\* snmp.enable(snmp_agent=agent, snmp_location=..., snmp_interface=...): the
\* engine listens on the interfaces of these ids
snmp_enable(sn) ==
  [status |-> TRUE, agent |-> sn.snmp_agent, location |-> sn.snmp_location,
   interfaces |-> yaml_snmp_interfaces(sn)]

snmp_disable == [status |-> FALSE, agent |-> None, location |-> None, interfaces |-> {}]

\* update_snmp without the comparison of the location
update_snmpIgnoringLocation(cur, sn) ==
  IF sn.enabled = "false"
  THEN IF cur.status
       THEN [snmp |-> snmp_disable, changed |-> TRUE,
             calls |-> <<Call("disable", "snmp", FALSE)>>]
       ELSE [snmp |-> cur, changed |-> FALSE, calls |-> <<>>]
  ELSE IF ~cur.status
  THEN [snmp |-> snmp_enable(sn), changed |-> TRUE,
        calls |-> <<Call("enable", "snmp", FALSE)>>]
  ELSE LET update ==
             \/ cur.agent # (IF sn.snmp_agent = None THEN "" ELSE sn.snmp_agent)
             \/ cur.interfaces # yaml_snmp_interfaces(sn)
       IN IF update
          THEN [snmp |-> snmp_enable(sn), changed |-> TRUE,
                calls |-> <<Call("enable", "snmp", FALSE)>>]
          ELSE [snmp |-> cur, changed |-> FALSE, calls |-> <<>>]

\* update_snmp(engine): [snmp, changed, calls]
update_snmp(cur, sn) ==
  IF sn.enabled = "false"
  THEN IF cur.status
       THEN [snmp |-> snmp_disable, changed |-> TRUE,
             calls |-> <<Call("disable", "snmp", FALSE)>>]
       ELSE [snmp |-> cur, changed |-> FALSE, calls |-> <<>>]
  ELSE IF ~cur.status
  THEN [snmp |-> snmp_enable(sn), changed |-> TRUE,
        calls |-> <<Call("enable", "snmp", FALSE)>>]
  ELSE LET update ==
             \/ cur.agent # (IF sn.snmp_agent = None THEN "" ELSE sn.snmp_agent)
             \/ cur.location # sn.snmp_location
             \/ cur.interfaces # yaml_snmp_interfaces(sn)
       IN IF update
          THEN [snmp |-> snmp_enable(sn), changed |-> TRUE,
                calls |-> <<Call("enable", "snmp", FALSE)>>]
          ELSE [snmp |-> cur, changed |-> FALSE, calls |-> <<>>]

\* update_location(engine): [location, changed]
update_location(cur, desired) ==
  IF ~Truthy(cur) /\ Truthy(desired) THEN [location |-> desired, changed |-> TRUE]
  ELSE IF Truthy(cur) /\ ~Truthy(desired) THEN [location |-> None, changed |-> TRUE]
  ELSE IF Truthy(cur) /\ Truthy(desired) /\ cur # desired
  THEN [location |-> desired, changed |-> TRUE]
  ELSE [location |-> cur, changed |-> FALSE]

\* ------------------------------------------------------------------ BGP
\* The BGP section: antispoofing_network is the list of its (type, name)
\* pairs, announced_network a list of [type, name, route_map], bgp_peering a
\* list of [name, kind, peer, interface_id, network] where kind is the key
\* naming the next hop ("external_bgp_peer", "engine", or None).

ValidTypes == {"network", "group", "host"}

\* The profile the remote service gives BGP when enable is called with
\* bgp_profile=None.
DefaultProfile == "Default BGP Profile"

PeerType(kind) ==
  IF kind = "external_bgp_peer" THEN "external_bgp_peer" ELSE "single_fw,fw_cluster"

\* validate_antispoofing_network: every key is a valid element type
validate_antispoofing_network(spoofing) ==
  \A i \in 1..Len(spoofing) : spoofing[i][1] \in ValidTypes

\* validate_and_extract_announced: [ok, for_cache]; for_cache lists the
\* (type, name) pairs to resolve, route maps included.
AnnouncedValid(networks) ==
  \A i \in 1..Len(networks) :
    networks[i].type \in ValidTypes /\ networks[i].name # None

RECURSIVE AnnouncedForCache(_)
AnnouncedForCache(networks) ==
  IF networks = <<>> THEN <<>>
  ELSE (IF Head(networks).route_map # None
        THEN <<<<"route_map", Head(networks).route_map>>>> ELSE <<>>)
       \o <<<<Head(networks).type, Head(networks).name>>>>
       \o AnnouncedForCache(Tail(networks))

RECURSIVE PeersForCache(_, _)
\* the loop over bgp_peering of exec_module: one cache._add_entry per peer
PeersForCache(cache, peerings) ==
  IF peerings = <<>> THEN cache
  ELSE PeersForCache(
         Cache_add_entry(cache, PeerType(Head(peerings).kind), Head(peerings).peer),
         Tail(peerings))

\* antispoofing_format(): the handles of the antispoofing entries
antispoofing_format(cache, b) ==
  [i \in 1..Len(b.antispoofing_network) |->
     Cache_get(cache, b.antispoofing_network[i][1], b.antispoofing_network[i][2])]

\* announced_network_format(): [network handle, route_map handle or None]
announced_network_format(cache, b) ==
  [i \in 1..Len(b.announced_network) |->
     [network |-> Cache_get(cache, b.announced_network[i].type,
                            b.announced_network[i].name),
      route_map |-> Cache_get(cache, "route_map", b.announced_network[i].route_map)]]

\* {entry.network: entry.route_map for entry in list}: the last entry of a
\* network wins
DictOf(entries) ==
  [n \in {entries[i].network : i \in 1..Len(entries)} |->
     LET last == CHOOSE i \in 1..Len(entries) :
                   /\ entries[i].network = n
                   /\ \A j \in 1..Len(entries) : entries[j].network = n => j <= i
     IN entries[last].route_map]

\* A check that does not look at the router id
update_bgpIgnoringRouter(cur, b, cache) ==
  \/ (b.bgp_profile # None /\ b.bgp_profile # cur.profile)
  \/ SymDiff(cur.antispoofing, SeqToSet(antispoofing_format(cache, b))) # {}
  \/ DictOf(cur.announced) # DictOf(announced_network_format(cache, b))

\* update_bgp(bgp): whether BGP has to be re-established
update_bgp(cur, b, cache) ==
  \/ cur.router_id # (IF b.router_id = None THEN "" ELSE b.router_id)
  \/ (b.bgp_profile # None /\ b.bgp_profile # cur.profile)
  \/ SymDiff(cur.antispoofing, SeqToSet(antispoofing_format(cache, b))) # {}
  \/ DictOf(cur.announced) # DictOf(announced_network_format(cache, b))

bgp_disable(cur) == [cur EXCEPT !.status = FALSE, !.announced = <<>>]

\* A re-enable that adds the desired announced networks to those already there
bgp_enableKeepingAnnounced(cur, b, cache) ==
  [status |-> TRUE,
   router_id |-> IF b.router_id = None THEN "" ELSE b.router_id,
   profile |-> DefaultProfile,
   as_name |-> b.autonomous_system.name,
   antispoofing |-> SeqToSet(antispoofing_format(cache, b)),
   announced |-> cur.announced \o announced_network_format(cache, b)]

\* bgp.enable(autonomous_system, announced_networks=[], antispoofing_networks,
\*            router_id, bgp_profile=None) followed by one advertise_network
\* per announced entry
bgp_enable(cur, b, cache) ==
  [status |-> TRUE,
   router_id |-> IF b.router_id = None THEN "" ELSE b.router_id,
   profile |-> DefaultProfile,
   as_name |-> b.autonomous_system.name,
   antispoofing |-> SeqToSet(antispoofing_format(cache, b)),
   announced |-> announced_network_format(cache, b)]

\* A re-establishment that advertises nothing
AdvertiseNothing(entries) == <<>>

AdvertiseCalls(entries) ==
  [i \in 1..Len(entries) |-> Call("bgp.advertise_network", entries[i].network, FALSE)]

\* update_bgp_peering(engine, bgp_peering, peering_dict): whether the
\* peering has to be attached, from the (network, peering) pairs already on
\* the interface's routing node
PeeringNeedsUpdate(attached, name, network) ==
  IF attached # {}
  THEN \E p \in attached :
         IF Truthy(network) /\ p.network = network
         THEN p.name # name
         ELSE name # p.name
  ELSE TRUE

\* routing.add_bgp_peering(bgp_peering, extpeer, network): the peering is
\* put on that network of the interface, or on all of them without one
add_bgp_peering(peerings, itf, interface_id, name, network) ==
  peerings \cup
    {[interface_id |-> interface_id, network |-> n, name |-> name] :
       n \in IF Truthy(network) THEN {network} ELSE Networks(itf.addrs)}

\* -------------------------------------------------------- the remote engine

NoBgpConfig ==
  [status |-> FALSE, router_id |-> "", profile |-> DefaultProfile, as_name |-> None,
   antispoofing |-> {}, announced |-> <<>>]

IfIds == {"1", "2", "3"}

NoEngine ==
  [exists |-> FALSE,
   settings |-> [default_nat |-> FALSE, file_reputation |-> FALSE, antivirus |-> FALSE,
                 dns |-> <<>>, location |-> None, cluster_mode |-> "standby",
                 snmp |-> snmp_disable, bgp |-> NoBgpConfig],
   interfaces |-> [i \in IfIds |-> AbsentInterface],
   routes |-> <<>>,
   options |-> [primary_mgt |-> None, backup_mgt |-> None, primary_heartbeat |-> None],
   peerings |-> {},
   as_elements |-> {},
   peering_elements |-> {},
   tags |-> {}]

RECURSIVE BuildInterfaces(_, _)
\* the interfaces FirewallCluster.create builds from the definitions
BuildInterfaces(itfs, acc) ==
  IF itfs = <<>> THEN acc
  ELSE LET y == Head(itfs)
           cur == acc[y.interface_id]
       IN BuildInterfaces(Tail(itfs),
            [acc EXCEPT ![y.interface_id] =
               IF is_vlan(y) THEN add_vlan_to_cluster(cur, y)
               ELSE [add_cluster_virtual_interface(y) EXCEPT !.vlans = cur.vlans]])

RECURSIVE RefreshAll(_, _, _)
RefreshAll(routes, ids, interfaces) ==
  IF ids = {} THEN routes
  ELSE LET id == CHOOSE i \in ids : TRUE
       IN RefreshAll(IF interfaces[id].exists
                     THEN RefreshRoutes(routes, id, interfaces[id]) ELSE routes,
                     ids \ {id}, interfaces)

\* FirewallCluster.create(**cluster): the engine the remote service builds
\* from the flat attribute map of exec_module
FirewallCluster_create(d) ==
  LET mgmt == Interfaces_get(d.interfaces, d.primary_mgt)
      others == FilterSeq(d.interfaces,
                          {y \in SeqToSet(d.interfaces) : y.interface_id = d.primary_mgt})
      itfs == BuildInterfaces(<<mgmt>> \o others, NoEngine.interfaces)
  IN [NoEngine EXCEPT
        !.exists = TRUE,
        !.settings = [default_nat |-> d.default_nat = "true",
                      file_reputation |-> d.file_reputation = "true",
                      antivirus |-> d.antivirus = "true",
                      dns |-> d.domain_server_address,
                      location |-> d.location,
                      cluster_mode |-> d.cluster_mode,
                      snmp |-> IF d.snmp.snmp_agent # None THEN snmp_enable(d.snmp)
                               ELSE snmp_disable,
                      bgp |-> NoBgpConfig],
        !.interfaces = itfs,
        !.routes = RefreshAll(<<>>, IfIds, itfs),
        !.options = [primary_mgt |-> d.primary_mgt, backup_mgt |-> d.backup_mgt,
                     primary_heartbeat |-> IF d.primary_heartbeat = None
                                           THEN d.primary_mgt ELSE d.primary_heartbeat]]

\* ------------------------------------------------- documents and scenarios
\* The playbook documents and the remote states a run may start from.  Each
\* family varies one part of the document against the matching part of the
\* remote engine; the rest is the base document and the engine built from it.

NoSnmp ==
  [present |-> FALSE, enabled |-> None, snmp_agent |-> None, snmp_location |-> None,
   snmp_interface |-> <<>>]

NoBgp ==
  [present |-> FALSE, enabled |-> None, router_id |-> None, bgp_profile |-> None,
   autonomous_system |-> [name |-> None, as_number |-> None],
   antispoofing_network |-> <<>>, announced_network |-> <<>>, bgp_peering |-> <<>>]

Mgmt ==
  YamlInterface("1", None, "2.2.2.1", "2.2.2.0/24", "02:02:02:02:02:04", None,
                <<Node("2.2.2.2", "2.2.2.0/24", 1), Node("2.2.2.3", "2.2.2.0/24", 2)>>)

BaseDoc ==
  [state |-> "present", interfaces |-> <<Mgmt>>, primary_mgt |-> "1",
   backup_mgt |-> None, primary_heartbeat |-> "1", cluster_mode |-> "standby",
   default_nat |-> "false", antivirus |-> "false", file_reputation |-> "false",
   domain_server_address |-> <<>>, location |-> None, snmp |-> NoSnmp,
   bgp |-> NoBgp, tags |-> <<>>, skip_interfaces |-> FALSE]

BaseRemote == FirewallCluster_create(BaseDoc)

Scenario(d, r) == [doc |-> d, remote |-> r]

\* --- general settings
GeneralDocs ==
  {[BaseDoc EXCEPT !.default_nat = n, !.domain_server_address = dns] :
     n \in {"true", "false", None},
     dns \in {<<>>, <<"8.8.8.8">>, <<"8.8.4.4", "8.8.8.8">>}}
  \cup {[BaseDoc EXCEPT !.location = l, !.cluster_mode = m] :
          l \in {None, "loc1"}, m \in {"standby", "balancing"}}

GeneralRemotes ==
  {[BaseRemote EXCEPT !.settings.default_nat = n, !.settings.dns = dns] :
     n \in BOOLEAN, dns \in {<<>>, <<"8.8.8.8">>, <<"8.8.8.8", "8.8.4.4">>}}
  \cup {[BaseRemote EXCEPT !.settings.location = l] : l \in {"loc1", "loc2"}}

\* --- the three toggles of update_general, each desired true, false or
\* unspecified, against each current status
Toggles == {"default_nat", "file_reputation", "antivirus"}

ToggleDocs ==
  {[BaseDoc EXCEPT !.default_nat = n, !.file_reputation = f, !.antivirus = a] :
     n \in {"true", "false", None}, f \in {"true", "false", None},
     a \in {"true", "false", None}}

ToggleRemotes ==
  {[BaseRemote EXCEPT !.settings.default_nat = n, !.settings.file_reputation = f,
                      !.settings.antivirus = a] :
     n \in BOOLEAN, f \in BOOLEAN, a \in BOOLEAN}

\* --- a flat interface 2
Nodes2 == <<Node("3.3.3.2", "3.3.3.0/24", 1), Node("3.3.3.3", "3.3.3.0/24", 2)>>
Nodes2b == <<Node("3.3.3.4", "3.3.3.0/24", 1), Node("3.3.3.3", "3.3.3.0/24", 2)>>
Mac2 == "02:02:02:02:02:05"

FlatSpecs ==
  { YamlInterface("2", None, None, None, None, None, <<>>),
    YamlInterface("2", None, None, None, None, None, Nodes2),
    YamlInterface("2", None, None, None, None, "internal", Nodes2b),
    YamlInterface("2", None, "3.3.3.1", "3.3.3.0/24", Mac2, None, Nodes2),
    YamlInterface("2", None, "3.3.3.1", "3.3.3.0/24", Mac2, None, <<>>) }

FlatDocs ==
  {[BaseDoc EXCEPT !.interfaces = <<Mgmt, y>>] : y \in FlatSpecs} \cup {BaseDoc}

WithInterface(r, id, itf) ==
  [r EXCEPT !.interfaces[id] = itf, !.routes = RefreshRoutes(@, id, itf)]

FlatRemotes ==
  {WithInterface(BaseRemote, "2", add_cluster_virtual_interface(y)) : y \in FlatSpecs}
  \cup {BaseRemote}

\* --- interface 2 as a collection of VLANs
VNodes3 == <<Node("3.3.3.2", "3.3.3.0/24", 1), Node("3.3.3.3", "3.3.3.0/24", 2)>>
VNodes3m == <<Node("3.3.3.2", "3.3.0.0/16", 1), Node("3.3.3.3", "3.3.0.0/16", 2)>>
VNodes4 == <<Node("4.4.4.2", "4.4.4.0/24", 1), Node("4.4.4.3", "4.4.4.0/24", 2)>>

Vlan3Specs ==
  { YamlInterface("2", "3", None, None, None, None, VNodes3),
    YamlInterface("2", "3", None, None, None, "somevlan", VNodes3m),
    YamlInterface("2", "3", "3.3.3.1", "3.3.3.0/24", Mac2, None, VNodes3),
    YamlInterface("2", "3", "3.3.3.5", "3.3.3.0/24", Mac2, None, VNodes3),
    YamlInterface("2", "3", "3.3.3.1", "3.3.3.0/24", Mac2, None, <<>>),
    YamlInterface("2", "3", None, None, None, None, <<>>) }

Vlan4 == YamlInterface("2", "4", None, None, None, None, VNodes4)
Vlan4Bare == YamlInterface("2", "4", None, None, None, None, <<>>)

VlanDocs ==
  {[BaseDoc EXCEPT !.interfaces = <<Mgmt, y>>] : y \in Vlan3Specs}
  \cup {[BaseDoc EXCEPT !.interfaces = <<Mgmt, y, Vlan4>>] : y \in Vlan3Specs}

VlanItf(specs) == BuildInterfaces(specs, NoEngine.interfaces)["2"]

VlanRemotes ==
  {WithInterface(BaseRemote, "2", VlanItf(<<y>>)) : y \in Vlan3Specs}
  \cup {WithInterface(BaseRemote, "2", VlanItf(<<y, v>>)) :
          y \in Vlan3Specs, v \in {Vlan4, Vlan4Bare}}
  \cup {BaseRemote,
        WithInterface(BaseRemote, "2",
                      add_cluster_virtual_interface(
                        YamlInterface("2", None, None, None, None, None, <<>>)))}

\* --- a collection of VLANs the document adds a VLAN 4 to, with nothing
\* on it
BareVlanScenarios ==
  {Scenario([BaseDoc EXCEPT !.interfaces = <<Mgmt, y, Vlan4Bare>>],
            WithInterface(BaseRemote, "2", VlanItf(<<r>>))) :
     y \in Vlan3Specs, r \in Vlan3Specs}

\* --- BGP
As1 == [name |-> "as1", as_number |-> "65001"]

Announced(type, name, rm) == [type |-> type, name |-> name, route_map |-> rm]

Peering(name, kind, peer, id, network) ==
  [name |-> name, kind |-> kind, peer |-> peer, interface_id |-> id, network |-> network]

BgpSection(enabled, rid, profile, spoof, ann, peers) ==
  [present |-> TRUE, enabled |-> enabled, router_id |-> rid, bgp_profile |-> profile,
   autonomous_system |-> As1, antispoofing_network |-> spoof,
   announced_network |-> ann, bgp_peering |-> peers]

Spoof1 == <<<<"network", "net1">>>>
Spoof2 == <<<<"network", "net1">>, <<"host", "hostb">>>>
Spoof2r == <<<<"host", "hostb">>, <<"network", "net1">>>>
SpoofX == <<<<"network", "netX">>>>
Ann1 == <<Announced("network", "net1", "rm1")>>
Ann2 == <<Announced("network", "net1", "rm1"), Announced("host", "hostb", None)>>
AnnX == <<Announced("network", "netY", None)>>
AnnRmX == <<Announced("network", "net1", "rmX")>>
Peer1 == Peering("bgppeering", "external_bgp_peer", "bgppeer", "1", "2.2.2.0/24")
Peer2 == Peering("bgppeering2", "engine", "myfw", "1", "2.2.2.0/24")
PeerX == Peering("bgppeering", "external_bgp_peer", "peerX", "1", "2.2.2.0/24")

BgpSections ==
  { BgpSection("true", "1.1.1.1", None, Spoof1, Ann1, <<>>),
    BgpSection("true", "2.2.2.2", None, Spoof1, Ann1, <<>>),
    BgpSection(None, "1.1.1.1", DefaultProfile, Spoof2, Ann2, <<>>),
    BgpSection("true", "1.1.1.1", None, Spoof2r, Ann2, <<>>),
    BgpSection("true", "1.1.1.1", "custom", Spoof1, Ann1, <<>>),
    BgpSection("true", "1.1.1.1", None, Spoof1, Ann1, <<Peer1>>),
    BgpSection("true", "1.1.1.1", None, Spoof1, Ann1, <<Peer1, Peer2>>),
    BgpSection("false", "1.1.1.1", None, Spoof1, Ann1, <<>>),
    BgpSection("false", "1.1.1.1", None, SpoofX, Ann1, <<>>),
    BgpSection("true", "1.1.1.1", None, SpoofX, Ann1, <<>>),
    BgpSection("true", "1.1.1.1", None, Spoof1, AnnX, <<>>),
    BgpSection(None, "1.1.1.1", None, SpoofX, AnnX, <<PeerX>>),
    BgpSection("true", "1.1.1.1", None, Spoof1, AnnRmX, <<>>),
    BgpSection("true", "1.1.1.1", None, Spoof1, Ann1, <<PeerX>>),
    [BgpSection("true", "1.1.1.1", None, Spoof1, Ann1, <<>>) EXCEPT
       !.autonomous_system = [name |-> "as1", as_number |-> None]] }

BgpDocs == {[BaseDoc EXCEPT !.bgp = b] : b \in BgpSections}

RemoteBgp(rid, spoof, ann) ==
  [status |-> TRUE, router_id |-> rid, profile |-> DefaultProfile, as_name |-> "as1",
   antispoofing |-> spoof, announced |-> ann]

BgpOn1 ==
  [BaseRemote EXCEPT
     !.settings.bgp =
        RemoteBgp("1.1.1.1", {Href("network", "net1")},
                  <<[network |-> Href("network", "net1"),
                     route_map |-> Href("route_map", "rm1")]>>),
     !.as_elements = {"as1"}]

AttachedPeering(name) ==
  [interface_id |-> "1", network |-> "2.2.2.0/24", name |-> name]

BgpRemotes ==
  { BaseRemote, BgpOn1,
    [BgpOn1 EXCEPT !.peering_elements = {"bgppeering"},
                   !.peerings = {AttachedPeering("bgppeering")}],
    [BgpOn1 EXCEPT !.peering_elements = {"other"},
                   !.peerings = {AttachedPeering("other")}] }

\* --- SNMP and tags
SnmpSection(enabled, agent, location, interfaces) ==
  [present |-> TRUE, enabled |-> enabled, snmp_agent |-> agent,
   snmp_location |-> location, snmp_interface |-> interfaces]

SnmpInterfaceLists ==
  {<<>>, <<YamlStr("1")>>, <<YamlInt(1)>>, <<YamlInt(2), YamlStr("1")>>}

SnmpDocs ==
  {[BaseDoc EXCEPT !.snmp = SnmpSection(e, a, l, i)] :
     e \in {None, "true", "false"}, a \in {"myagent", "agent2"},
     l \in {"newcluster", "other"}, i \in SnmpInterfaceLists}

SnmpRemotes ==
  {BaseRemote} \cup
  {[BaseRemote EXCEPT !.settings.snmp =
      [status |-> TRUE, agent |-> a, location |-> l, interfaces |-> i]] :
     a \in {"myagent", "agent2"}, l \in {"newcluster", "other"},
     i \in {{"1"}, {"1", "2"}}}

TagDocs == {[BaseDoc EXCEPT !.tags = t] : t \in {<<>>, <<"footag">>}}

TagRemotes == {[BaseRemote EXCEPT !.tags = t] : t \in {{}, {"footag"}, {"other"}}}

\* --- documents that break a rule of the desired-state model, state=absent,
\* and skip_interfaces
Flat2(nodes) == YamlInterface("2", None, None, None, None, None, nodes)

OddDocs ==
  { [BaseDoc EXCEPT !.interfaces = <<>>],
    [BaseDoc EXCEPT !.primary_mgt = "0"],
    [BaseDoc EXCEPT !.interfaces =
       <<Mgmt, YamlInterface(None, None, None, None, None, None, Nodes2)>>],
    [BaseDoc EXCEPT !.interfaces =
       <<Mgmt, Flat2(<<Node(None, "3.3.3.0/24", 1), Node("3.3.3.3", "3.3.3.0/24", 2)>>)>>],
    [BaseDoc EXCEPT !.interfaces =
       <<Mgmt, Flat2(<<Node("3.3.3.2", "3.3.3.0/24", 1), Node("3.3.3.3", "3.3.3.0/24", 1)>>)>>],
    [BaseDoc EXCEPT !.state = "absent"],
    [BaseDoc EXCEPT !.state = "absent",
                    !.bgp = BgpSection("true", "1.1.1.1", None, SpoofX, Ann1, <<>>)],
    [BaseDoc EXCEPT !.skip_interfaces = TRUE, !.interfaces = <<Mgmt, Flat2(Nodes2)>>],
    [BaseDoc EXCEPT !.skip_interfaces = TRUE, !.primary_mgt = "2",
                    !.interfaces = <<Mgmt, Flat2(Nodes2)>>],
    [BaseDoc EXCEPT !.primary_mgt = "2", !.interfaces = <<Mgmt, Flat2(Nodes2)>>],
    [BaseDoc EXCEPT !.primary_mgt = "2", !.primary_heartbeat = "2",
                    !.interfaces = <<Flat2(Nodes2)>>],
    [BaseDoc EXCEPT !.interfaces = <<Flat2(Nodes2)>>] }

OddRemotes ==
  { BaseRemote,
    [BaseRemote EXCEPT !.settings.default_nat = TRUE],
    WithInterface(BaseRemote, "2", add_cluster_virtual_interface(Flat2(Nodes2b))),
    WithInterface(BaseRemote, "3", add_cluster_virtual_interface(
                    [Flat2(Nodes2) EXCEPT !.interface_id = "3"])) }

\* --- interface 2 held remotely in a shape the document does not describe
\* two addresses on each node
Nodes2Extra == <<Node("5.5.5.2", "5.5.5.0/24", 1), Node("5.5.5.3", "5.5.5.0/24", 2)>>

MultiAddressRemote ==
  WithInterface(BaseRemote, "2",
                [add_cluster_virtual_interface(Flat2(Nodes2))
                   EXCEPT !.addrs = Nodes2 \o Nodes2Extra])

\* VLAN 3 with node 1 on another mask and node 2 on another address
VNodes3x == <<Node("3.3.3.2", "3.3.0.0/16", 1), Node("3.3.3.4", "3.3.3.0/24", 2)>>

UnevenVlanRemote ==
  WithInterface(BaseRemote, "2",
                VlanItf(<<YamlInterface("2", "3", None, None, None, None, VNodes3x)>>))

\* VLAN 3 with a cluster virtual address and no node addresses
Vlan3Cvi(address) == YamlInterface("2", "3", address, "3.3.3.0/24", Mac2, None, <<>>)

CviOnlyRemote == WithInterface(BaseRemote, "2", VlanItf(<<Vlan3Cvi("3.3.3.1")>>))

ShapeScenarios ==
  {Scenario(d, r) : d \in FlatDocs, r \in VlanRemotes \cup {MultiAddressRemote}}
  \cup {Scenario(d, UnevenVlanRemote) : d \in VlanDocs}
  \cup {Scenario([BaseDoc EXCEPT !.interfaces = <<Mgmt, Vlan3Cvi("3.3.3.5")>>],
                  CviOnlyRemote)}

\* --- a peering on an interface the run may have to create first
PeerOn2 == Peering("bgppeering", "external_bgp_peer", "bgppeer", "2", "3.3.3.0/24")

PeerOn2Doc ==
  [BaseDoc EXCEPT !.interfaces = <<Mgmt, Flat2(Nodes2)>>,
                  !.bgp = BgpSection("true", "1.1.1.1", None, Spoof1, Ann1, <<PeerOn2>>)]

\* another router id together with a peering
RouterPeerDoc ==
  [BaseDoc EXCEPT !.bgp = BgpSection("true", "2.2.2.2", None, Spoof1, Ann1, <<Peer1>>)]

\* the same two antispoofing and announced entries in either order
Ann2r == <<Announced("host", "hostb", None), Announced("network", "net1", "rm1")>>

BgpOn2 ==
  [BgpOn1 EXCEPT
     !.settings.bgp =
        RemoteBgp("1.1.1.1", {Href("network", "net1"), Href("host", "hostb")},
                  <<[network |-> Href("network", "net1"),
                     route_map |-> Href("route_map", "rm1")],
                    [network |-> Href("host", "hostb"), route_map |-> NoHref]>>)]

OrderScenarios ==
  {Scenario([BaseDoc EXCEPT !.bgp = BgpSection("true", "1.1.1.1", None, sp, an, <<>>)],
            BgpOn2) :
     sp \in {Spoof1, Spoof2, Spoof2r}, an \in {Ann1, Ann2, Ann2r}}

PeeringScenarios ==
  {Scenario(PeerOn2Doc, r) : r \in OddRemotes}
  \cup {Scenario(RouterPeerDoc, r) : r \in BgpRemotes}

AllDocs ==
  GeneralDocs \cup FlatDocs \cup VlanDocs \cup BgpDocs \cup SnmpDocs \cup TagDocs
  \cup OddDocs

Scenarios ==
  {Scenario(d, r) : d \in GeneralDocs, r \in GeneralRemotes}
  \cup {Scenario(d, r) : d \in ToggleDocs, r \in ToggleRemotes}
  \cup {Scenario(d, r) : d \in FlatDocs, r \in FlatRemotes}
  \cup {Scenario(d, r) : d \in VlanDocs, r \in VlanRemotes}
  \cup {Scenario(d, r) : d \in BgpDocs, r \in BgpRemotes}
  \cup {Scenario(d, r) : d \in SnmpDocs, r \in SnmpRemotes}
  \cup {Scenario(d, r) : d \in TagDocs, r \in TagRemotes}
  \cup {Scenario(d, r) : d \in OddDocs, r \in OddRemotes}
  \cup ShapeScenarios
  \cup PeeringScenarios
  \cup BareVlanScenarios
  \cup OrderScenarios
  \cup {Scenario(d, NoEngine) : d \in AllDocs}

\* ------------------------------------------------------------ the state

VARIABLES
  doc,         \* the playbook document (the module arguments)
  check_mode,  \* self.check_mode of this run
  remote,      \* what the management service holds
  eng,         \* engine.data: the cached engine this run edits
  pc,          \* where exec_module is
  changed,     \* exec_module's local "changed"
  results,     \* self.results, what the run reports
  calls,       \* the collaborator calls of this run, in order
  cache,       \* self.cache
  pending,     \* the playbook keys update_interfaces has still to visit
  failure,     \* how the run ended when it did not complete
  prev,        \* the outcome of the previous run, the remote state it started from
  start,       \* the remote state this run started from
  cleanups     \* the remove_routes calls of this run: what was passed, what it did

vars == <<doc, check_mode, remote, eng, pc, changed, results, calls, cache,
          pending, failure, prev, start, cleanups>>

NoFailure == [kind |-> "none", missing |-> <<>>]

NoPrev ==
  [ran |-> FALSE, dry |-> FALSE, outcome |-> "none", changed |-> FALSE,
   start |-> NoEngine, mutated |-> FALSE]

Init ==
  \E sc \in Scenarios, cm \in BOOLEAN :
    /\ doc = sc.doc
    /\ remote = sc.remote
    /\ check_mode = cm
    /\ eng = sc.remote.settings
    /\ pc = "start"
    /\ changed = FALSE
    /\ results = [changed |-> FALSE]
    /\ calls = <<>>
    /\ cache = EmptyCache
    /\ pending = {}
    /\ failure = NoFailure
    /\ prev = NoPrev
    /\ start = sc.remote
    /\ cleanups = <<>>

\* An error handler that records the error and lets the run go on to the tags
FailSwallowed(kind, missing) ==
  /\ pc' = "tags"
  /\ failure' = [kind |-> kind, missing |-> missing]

\* self.fail(msg=...): the run ends with an error
Fail(kind, missing) ==
  /\ pc' = "failed"
  /\ failure' = [kind |-> kind, missing |-> missing]

\* --- exec_module, before the try block: the checks of the document
InterfacesValid(d) ==
  /\ d.interfaces # <<>>
  /\ \A i \in 1..Len(d.interfaces) : SpecComplete(d.interfaces[i])
  /\ Interfaces_get(d.interfaces, d.primary_mgt) # NoYaml

BgpChecked(d) == d.bgp.present /\ d.bgp.enabled # "false"

\* The cache after each resolution step of exec_module
CacheSpoofing(d) == Cache_add(EmptyCache, d.bgp.antispoofing_network)
CacheAnnounced(d) == Cache_add(CacheSpoofing(d), AnnouncedForCache(d.bgp.announced_network))
CachePeers(d) == PeersForCache(CacheAnnounced(d), d.bgp.bgp_peering)

PeeringsValid(d) ==
  \A i \in 1..Len(d.bgp.bgp_peering) :
    d.bgp.bgp_peering[i].name # None /\ d.bgp.bgp_peering[i].kind # None

\* The BGP checks without the "if cache.missing" after the peering loop
BgpVerdictPeersUnchecked(d) ==
  IF ~validate_antispoofing_network(d.bgp.antispoofing_network)
  THEN [kind |-> "validation", missing |-> <<>>, cache |-> EmptyCache]
  ELSE IF CacheSpoofing(d).missing # <<>>
  THEN [kind |-> "reference", missing |-> CacheSpoofing(d).missing, cache |-> CacheSpoofing(d)]
  ELSE IF ~AnnouncedValid(d.bgp.announced_network)
  THEN [kind |-> "validation", missing |-> <<>>, cache |-> CacheSpoofing(d)]
  ELSE IF CacheAnnounced(d).missing # <<>>
  THEN [kind |-> "reference", missing |-> CacheAnnounced(d).missing,
        cache |-> CacheAnnounced(d)]
  ELSE IF d.bgp.autonomous_system.name = None \/ d.bgp.autonomous_system.as_number = None
  THEN [kind |-> "validation", missing |-> <<>>, cache |-> CacheAnnounced(d)]
  ELSE IF ~PeeringsValid(d)
  THEN [kind |-> "validation", missing |-> <<>>, cache |-> CacheAnnounced(d)]
  ELSE [kind |-> "none", missing |-> <<>>, cache |-> CachePeers(d)]

\* The verdict of the BGP checks: [kind, missing, cache]
BgpVerdict(d) ==
  IF ~validate_antispoofing_network(d.bgp.antispoofing_network)
  THEN [kind |-> "validation", missing |-> <<>>, cache |-> EmptyCache]
  ELSE IF CacheSpoofing(d).missing # <<>>
  THEN [kind |-> "reference", missing |-> CacheSpoofing(d).missing, cache |-> CacheSpoofing(d)]
  ELSE IF ~AnnouncedValid(d.bgp.announced_network)
  THEN [kind |-> "validation", missing |-> <<>>, cache |-> CacheSpoofing(d)]
  ELSE IF CacheAnnounced(d).missing # <<>>
  THEN [kind |-> "reference", missing |-> CacheAnnounced(d).missing,
        cache |-> CacheAnnounced(d)]
  ELSE IF d.bgp.autonomous_system.name = None \/ d.bgp.autonomous_system.as_number = None
  THEN [kind |-> "validation", missing |-> <<>>, cache |-> CacheAnnounced(d)]
  ELSE IF ~PeeringsValid(d)
  THEN [kind |-> "validation", missing |-> <<>>, cache |-> CacheAnnounced(d)]
  ELSE IF CachePeers(d).missing # <<>>
  THEN [kind |-> "reference", missing |-> CachePeers(d).missing, cache |-> CachePeers(d)]
  ELSE [kind |-> "none", missing |-> <<>>, cache |-> CachePeers(d)]

Validate ==
  /\ pc = "start"
  /\ eng' = remote.settings
  /\ IF doc.state = "present" /\ ~remote.exists /\ ~InterfacesValid(doc)
     THEN Fail("validation", <<>>) /\ cache' = cache
     ELSE IF doc.state = "present" /\ BgpChecked(doc)
     THEN LET v == BgpVerdict(doc)
          IN /\ cache' = v.cache
             /\ IF v.kind # "none" THEN Fail(v.kind, v.missing)
                ELSE pc' = "try" /\ failure' = failure
     ELSE pc' = "try" /\ failure' = failure /\ cache' = cache
  /\ UNCHANGED <<doc, check_mode, remote, changed, results, calls, pending, prev, start, cleanups>>

\* The end of exec_module: self.results['changed'] = changed; return
Return(c) == pc' = "done" /\ results' = [changed |-> c]

\* state == 'absent' without "changed = True" after engine.delete()
DeleteEngineUnflagged ==
  /\ pc = "try" /\ doc.state = "absent"
  /\ IF remote.exists
     THEN /\ remote' = [NoEngine EXCEPT !.as_elements = remote.as_elements,
                                        !.peering_elements = remote.peering_elements]
          /\ calls' = Append(calls, Call("engine.delete", "engine", TRUE))
     ELSE UNCHANGED <<remote, calls>>
  /\ Return(changed)
  /\ UNCHANGED <<doc, check_mode, eng, changed, cache, pending, failure, prev, start, cleanups>>

\* --- state == 'absent'
DeleteEngine ==
  /\ pc = "try" /\ doc.state = "absent"
  /\ IF remote.exists
     THEN /\ remote' = [NoEngine EXCEPT !.as_elements = remote.as_elements,
                                        !.peering_elements = remote.peering_elements]
          /\ calls' = Append(calls, Call("engine.delete", "engine", TRUE))
          /\ changed' = TRUE
          /\ Return(TRUE)
     ELSE /\ UNCHANGED <<remote, calls, changed>>
          /\ Return(changed)
  /\ UNCHANGED <<doc, check_mode, eng, cache, pending, failure, prev, start, cleanups>>

\* The create branch without "changed = True" after FirewallCluster.create
CreateEngineUnflagged ==
  /\ pc = "try" /\ doc.state = "present" /\ ~remote.exists
  /\ IF check_mode
     THEN /\ pc' = "done"
          /\ UNCHANGED <<remote, eng, calls>>
     ELSE /\ remote' = FirewallCluster_create(doc)
          /\ eng' = FirewallCluster_create(doc).settings
          /\ calls' = Append(calls, Call("FirewallCluster.create", "engine", TRUE))
          /\ pc' = "bgp"
  /\ UNCHANGED <<doc, check_mode, changed, results, cache, pending, failure, prev, start, cleanups>>

\* --- state == 'present', no engine of that name
CreateEngine ==
  /\ pc = "try" /\ doc.state = "present" /\ ~remote.exists
  /\ IF check_mode
     THEN /\ pc' = "done"
          /\ UNCHANGED <<remote, eng, calls, changed, results>>
     ELSE /\ remote' = FirewallCluster_create(doc)
          /\ eng' = FirewallCluster_create(doc).settings
          /\ calls' = Append(calls, Call("FirewallCluster.create", "engine", TRUE))
          /\ changed' = TRUE
          /\ pc' = "bgp"
          /\ UNCHANGED results
  /\ UNCHANGED <<doc, check_mode, cache, pending, failure, prev, start, cleanups>>

\* --- state == 'present', the engine exists: general settings, SNMP,
\* cluster mode, (check mode returns here), location, first engine.update()
UpdateEngine ==
  /\ pc = "try" /\ doc.state = "present" /\ remote.exists
  /\ LET g == update_general(eng, doc)
         sn == IF doc.snmp.present THEN update_snmp(g.eng.snmp, doc.snmp)
               ELSE [snmp |-> g.eng.snmp, changed |-> FALSE, calls |-> <<>>]
         mode == g.eng.cluster_mode # doc.cluster_mode
         e1 == [g.eng EXCEPT !.snmp = sn.snmp, !.cluster_mode = doc.cluster_mode]
         c1 == g.changed \/ sn.changed \/ mode
         k1 == calls \o g.calls \o sn.calls
               \o (IF mode THEN <<Call("cluster_mode", "engine", FALSE)>> ELSE <<>>)
         loc == update_location(e1.location, doc.location)
         e2 == [e1 EXCEPT !.location = loc.location]
         c2 == c1 \/ loc.changed
         keys == PlaybookKeys(doc.interfaces)
     IN IF check_mode
        THEN /\ eng' = e1
             /\ changed' = c1
             /\ calls' = k1
             /\ pc' = "done"
             /\ UNCHANGED <<remote, pending>>
        ELSE /\ eng' = e2
             /\ changed' = c2
             /\ calls' = k1
                  \o (IF loc.changed THEN <<Call("location", "engine", FALSE)>> ELSE <<>>)
                  \o (IF c2 THEN <<Call("engine.update", "engine", TRUE)>> ELSE <<>>)
             /\ remote' = IF c2 THEN [remote EXCEPT !.settings = e2] ELSE remote
             /\ pending' = IF doc.skip_interfaces THEN {} ELSE keys
             /\ pc' = IF doc.skip_interfaces \/ keys = {} THEN "management"
                      ELSE "interfaces"
  /\ UNCHANGED <<doc, check_mode, results, cache, failure, prev, start, cleanups>>

\* --- update_interfaces: one iteration of the loop over the playbook
StoreInterface(r, id, o) ==
  IF o.changed /\ id \in IfIds
  THEN [r EXCEPT !.interfaces[id] = o.itf, !.routes = RefreshRoutes(@, id, o.itf)]
  ELSE r

\* "if routes_to_remove: self.remove_routes(engine, routes_to_remove)"
Cleanup(names, before, rr) ==
  [routes_to_remove |-> names, before |-> before, after |-> rr.routes,
   calls |-> rr.calls]

AfterInterface(id, o, stored, rr) ==
  /\ remote' = [stored EXCEPT !.routes = rr.routes]
  /\ cleanups' = IF o.routes_to_remove # <<>>
                 THEN Append(cleanups, Cleanup(o.routes_to_remove, stored.routes, rr))
                 ELSE cleanups
  /\ calls' = calls \o o.calls \o rr.calls
  /\ changed' = (changed \/ o.changed)
  /\ pending' = pending \ {id}
  /\ IF o.outcome = "ok"
     THEN /\ pc' = IF pending = {id} THEN "management" ELSE "interfaces"
          /\ failure' = failure
     ELSE Fail(IF o.outcome = "fault" THEN "fault" ELSE "remote", <<>>)

StoreOutcome(id, o, stored) ==
  AfterInterface(id, o, stored, remove_routes(stored.routes, o.routes_to_remove))

ApplyOutcome(id, o) == StoreOutcome(id, o, StoreInterface(remote, id, o))

UpdateInterface(id) ==
  /\ pc = "interfaces" /\ id \in pending
  /\ ApplyOutcome(id, ReconcileGroup(
                        IF id \in IfIds THEN remote.interfaces[id] ELSE AbsentInterface,
                        Group(doc.interfaces, id), id))
  /\ UNCHANGED <<doc, check_mode, eng, results, cache, prev, start>>

\* --- reset_management(engine)
ResetManagement ==
  /\ pc = "management"
  /\ IF doc.primary_mgt \notin IfIds \/ ~remote.interfaces[doc.primary_mgt].exists
     THEN /\ Fail("remote", <<>>)
          /\ UNCHANGED <<remote, calls, changed>>
     ELSE LET mgt == remote.options.primary_mgt # doc.primary_mgt
              bak == remote.options.backup_mgt # doc.backup_mgt
              hb == remote.options.primary_heartbeat # doc.primary_heartbeat
          IN /\ remote' = [remote EXCEPT !.options =
                             [primary_mgt |-> doc.primary_mgt,
                              backup_mgt |-> doc.backup_mgt,
                              primary_heartbeat |-> doc.primary_heartbeat]]
             /\ calls' = calls
                  \o (IF mgt THEN <<Call("set_primary_mgt", doc.primary_mgt, TRUE)>> ELSE <<>>)
                  \o (IF bak THEN <<Call("set_backup_mgt", doc.backup_mgt, TRUE)>> ELSE <<>>)
                  \o (IF hb THEN <<Call("set_primary_heartbeat", doc.primary_heartbeat, TRUE)>>
                      ELSE <<>>)
             /\ changed' = (changed \/ mgt \/ bak \/ hb)
             /\ pc' = "cleanup"
             /\ failure' = failure
  /\ UNCHANGED <<doc, check_mode, eng, results, cache, pending, prev, start, cleanups>>

\* A cleanup that keeps the management interface and nothing else
UndefinedIgnoringDocument(r, d) ==
  {id \in IfIds : r.interfaces[id].exists /\ id # d.primary_mgt}

\* --- "delete top level interfaces that are not defined in the YAML"
Undefined(r, d) ==
  {id \in IfIds : r.interfaces[id].exists /\ id \notin PlaybookKeys(d.interfaces)}

DeleteCalls(ids) ==
  [i \in 1..Cardinality(ids) |-> Call("interface.delete", SetToSeq(ids)[i], TRUE)]

\* The cleanup without the "if not self.skip_interfaces" in front of it
DeleteUndefinedAlways ==
  /\ pc = "cleanup"
  /\ LET gone == Undefined(remote, doc)
     IN /\ remote' =
             [remote EXCEPT
                !.interfaces = [id \in IfIds |-> IF id \in gone THEN AbsentInterface ELSE @[id]],
                !.routes = FilterSeq(@, {r \in SeqToSet(@) : r.name[2] \in gone}),
                !.peerings = {p \in @ : p.interface_id \notin gone}]
        /\ calls' = calls \o DeleteCalls(gone)
        /\ changed' = (changed \/ gone # {})
  /\ pc' = "bgp"
  /\ UNCHANGED <<doc, check_mode, eng, results, cache, pending, failure, prev, start, cleanups>>

\* A cleanup that deletes without setting changed
DeleteUndefinedUnflagged ==
  /\ pc = "cleanup"
  /\ LET gone == IF doc.skip_interfaces THEN {} ELSE Undefined(remote, doc)
     IN /\ remote' =
             [remote EXCEPT
                !.interfaces = [id \in IfIds |-> IF id \in gone THEN AbsentInterface ELSE @[id]],
                !.routes = FilterSeq(@, {r \in SeqToSet(@) : r.name[2] \in gone}),
                !.peerings = {p \in @ : p.interface_id \notin gone}]
        /\ calls' = calls \o DeleteCalls(gone)
        /\ changed' = changed
  /\ pc' = "bgp"
  /\ UNCHANGED <<doc, check_mode, eng, results, cache, pending, failure, prev, start, cleanups>>

DeleteUndefined ==
  /\ pc = "cleanup"
  /\ LET gone == IF doc.skip_interfaces THEN {} ELSE Undefined(remote, doc)
     IN /\ remote' =
             [remote EXCEPT
                !.interfaces = [id \in IfIds |-> IF id \in gone THEN AbsentInterface ELSE @[id]],
                !.routes = FilterSeq(@, {r \in SeqToSet(@) : r.name[2] \in gone}),
                !.peerings = {p \in @ : p.interface_id \notin gone}]
        /\ calls' = calls \o DeleteCalls(gone)
        /\ changed' = (changed \/ gone # {})
  /\ pc' = "bgp"
  /\ UNCHANGED <<doc, check_mode, eng, results, cache, pending, failure, prev, start, cleanups>>

\* The BGP block without the engine.update() in front of the peerings
BgpUnpersisted ==
  /\ pc = "bgp"
  /\ IF ~doc.bgp.present
     THEN /\ pc' = "tags"
          /\ UNCHANGED <<remote, eng, calls, changed>>
     ELSE
       LET enable == doc.bgp.enabled # "false"
           off == ~enable /\ eng.bgp.status
           redo == enable /\ update_bgp(eng.bgp, doc.bgp, cache)
           created == redo /\ doc.bgp.autonomous_system.name \notin remote.as_elements
           b1 == IF off THEN bgp_disable(eng.bgp)
                 ELSE IF redo THEN bgp_enable(eng.bgp, doc.bgp, cache)
                 ELSE eng.bgp
           c1 == changed \/ off \/ redo
           k1 == (IF off THEN <<Call("bgp.disable", "bgp", FALSE)>> ELSE <<>>)
                 \o (IF redo
                     THEN <<Call("AutonomousSystem.get_or_create",
                                 doc.bgp.autonomous_system.name, created),
                            Call("bgp.disable", "bgp", FALSE),
                            Call("bgp.enable", "bgp", FALSE)>>
                          \o AdvertiseCalls(announced_network_format(cache, doc.bgp))
                     ELSE <<>>)
           e1 == [eng EXCEPT !.bgp = b1]
       IN /\ eng' = e1
          /\ changed' = c1
          /\ calls' = calls \o k1
          /\ remote' = [remote EXCEPT
                          !.as_elements = IF created
                                          THEN @ \cup {doc.bgp.autonomous_system.name}
                                          ELSE @]
          /\ pc' = IF enable THEN "peering" ELSE "tags"
  /\ UNCHANGED <<doc, check_mode, results, cache, pending, failure, prev, start, cleanups>>


\* --- the BGP block of exec_module up to the engine.update() before peerings
Bgp ==
  /\ pc = "bgp"
  /\ IF ~doc.bgp.present
     THEN /\ pc' = "tags"
          /\ UNCHANGED <<remote, eng, calls, changed>>
     ELSE
       LET enable == doc.bgp.enabled # "false"
           off == ~enable /\ eng.bgp.status
           redo == enable /\ update_bgp(eng.bgp, doc.bgp, cache)
           created == redo /\ doc.bgp.autonomous_system.name \notin remote.as_elements
           b1 == IF off THEN bgp_disable(eng.bgp)
                 ELSE IF redo THEN bgp_enable(eng.bgp, doc.bgp, cache)
                 ELSE eng.bgp
           c1 == changed \/ off \/ redo
           k1 == (IF off THEN <<Call("bgp.disable", "bgp", FALSE)>> ELSE <<>>)
                 \o (IF redo
                     THEN <<Call("AutonomousSystem.get_or_create",
                                 doc.bgp.autonomous_system.name, created),
                            Call("bgp.disable", "bgp", FALSE),
                            Call("bgp.enable", "bgp", FALSE)>>
                          \o AdvertiseCalls(announced_network_format(cache, doc.bgp))
                     ELSE <<>>)
                 \o (IF c1 THEN <<Call("engine.update", "engine", TRUE)>> ELSE <<>>)
           e1 == [eng EXCEPT !.bgp = b1]
       IN /\ eng' = e1
          /\ changed' = c1
          /\ calls' = calls \o k1
          /\ remote' = [remote EXCEPT
                          !.settings = IF c1 THEN e1 ELSE @,
                          !.as_elements = IF created
                                          THEN @ \cup {doc.bgp.autonomous_system.name}
                                          ELSE @]
          /\ pc' = IF enable THEN "peering" ELSE "tags"
  /\ UNCHANGED <<doc, check_mode, results, cache, pending, failure, prev, start, cleanups>>

RECURSIVE PeeringLoop(_, _, _)
\* "for peer in peerings": st = [remote, changed, calls, ok]
PeeringLoop(peers, st, c) ==
  IF peers = <<>> \/ ~st.ok THEN st
  ELSE
    LET peer == Head(peers)
        created == peer.name \notin st.remote.peering_elements
        r1 == [st.remote EXCEPT !.peering_elements = @ \cup {peer.name}]
        k1 == Append(st.calls, Call("BGPPeering.get_or_create", peer.name, created))
        found == peer.interface_id \in IfIds /\ r1.interfaces[peer.interface_id].exists
        attached == {p \in r1.peerings : p.interface_id = peer.interface_id}
        needs == PeeringNeedsUpdate(attached, peer.name, peer.network)
    IN IF ~found
       THEN [remote |-> r1, changed |-> st.changed \/ created, calls |-> k1, ok |-> FALSE]
       ELSE PeeringLoop(Tail(peers),
              [remote |-> IF needs
                          THEN [r1 EXCEPT !.peerings =
                                  add_bgp_peering(@, r1.interfaces[peer.interface_id],
                                                  peer.interface_id, peer.name, peer.network)]
                          ELSE r1,
               changed |-> st.changed \/ created \/ needs,
               calls |-> IF needs
                         THEN Append(k1, Call("add_bgp_peering", peer.interface_id, TRUE))
                         ELSE k1,
               ok |-> TRUE], c)

\* --- the peerings, applied after the engine.update()
Peerings ==
  /\ pc = "peering"
  /\ LET st == PeeringLoop(doc.bgp.bgp_peering,
                           [remote |-> remote, changed |-> changed, calls |-> calls,
                            ok |-> TRUE], cache)
     IN /\ remote' = st.remote
        /\ changed' = st.changed
        /\ calls' = st.calls
        /\ IF st.ok THEN pc' = "tags" /\ failure' = failure
           ELSE Fail("remote", <<>>)
  /\ UNCHANGED <<doc, check_mode, eng, results, cache, pending, prev, start, cleanups>>

\* add_tags / clear_tags (StonesoftModuleBase): [tags, changed]
add_tags(tags, wanted) ==
  [tags |-> tags \cup SeqToSet(wanted), changed |-> ~(SeqToSet(wanted) \subseteq tags)]

clear_tags(tags) == [tags |-> {}, changed |-> tags # {}]

\* --- the tags and the end of exec_module
Tags ==
  /\ pc = "tags"
  /\ LET t == IF doc.tags # <<>> THEN add_tags(remote.tags, doc.tags)
              ELSE clear_tags(remote.tags)
     IN /\ remote' = [remote EXCEPT !.tags = t.tags]
        /\ calls' = IF t.changed
                    THEN Append(calls, Call(IF doc.tags # <<>> THEN "add_tags" ELSE "clear_tags",
                                            "engine", TRUE))
                    ELSE calls
        /\ changed' = (changed \/ t.changed)
        /\ Return(changed \/ t.changed)
  /\ UNCHANGED <<doc, check_mode, eng, cache, pending, failure, prev, start, cleanups>>

RemoteCalls(cs) == {i \in 1..Len(cs) : cs[i].remote}

\* --- the playbook is run again with the same document, against the remote
\* state the previous run left
NextRun ==
  /\ pc \in {"done", "failed"}
  /\ \E cm \in BOOLEAN : check_mode' = cm
  /\ prev' = [ran |-> TRUE, dry |-> check_mode, outcome |-> pc,
              changed |-> results.changed, start |-> start,
              mutated |-> RemoteCalls(calls) # {}]
  /\ start' = remote
  /\ eng' = remote.settings
  /\ pc' = "start"
  /\ changed' = FALSE
  /\ results' = [changed |-> FALSE]
  /\ calls' = <<>>
  /\ cache' = EmptyCache
  /\ pending' = {}
  /\ failure' = NoFailure
  /\ cleanups' = <<>>
  /\ UNCHANGED <<doc, remote>>

\* The deletion of the undefined interfaces moved behind the peerings
CleanupSkipped ==
  /\ pc = "cleanup" /\ pc' = "bgp"
  /\ UNCHANGED <<doc, check_mode, remote, eng, changed, results, calls, cache, pending,
                 failure, prev, start, cleanups>>

CleanupLate ==
  /\ pc = "tags" /\ ~doc.skip_interfaces /\ Undefined(remote, doc) # {}
  /\ remote' =
       [remote EXCEPT
          !.interfaces = [id \in IfIds |-> IF id \in Undefined(remote, doc)
                                           THEN AbsentInterface ELSE @[id]]]
  /\ calls' = calls \o DeleteCalls(Undefined(remote, doc))
  /\ changed' = TRUE
  /\ UNCHANGED <<doc, check_mode, eng, pc, results, cache, pending, failure, prev, start,
                 cleanups>>

NextCleanupLate ==
  \/ Validate
  \/ DeleteEngine
  \/ CreateEngine
  \/ UpdateEngine
  \/ \E id \in pending : UpdateInterface(id)
  \/ ResetManagement
  \/ CleanupSkipped
  \/ Bgp
  \/ Peerings
  \/ CleanupLate
  \/ Tags
  \/ NextRun

Next ==
  \/ Validate
  \/ DeleteEngine
  \/ CreateEngine
  \/ UpdateEngine
  \/ \E id \in pending : UpdateInterface(id)
  \/ ResetManagement
  \/ DeleteUndefined
  \/ Bgp
  \/ Peerings
  \/ Tags
  \/ NextRun

Spec == Init /\ [][Next]_vars

\* ================================================================ claims

Ended == pc \in {"done", "failed"}

\* Some interface definition has no interface_id, or some node lacks
\* address, network_value or nodeid.
FieldMissing(d) ==
  \E i \in 1..Len(d.interfaces) :
    \/ d.interfaces[i].interface_id = None
    \/ \E k \in 1..Len(d.interfaces[i].nodes) :
         \/ d.interfaces[i].nodes[k].address = None
         \/ d.interfaces[i].nodes[k].network_value = None
         \/ d.interfaces[i].nodes[k].nodeid = 0

\* Some interface definition lists two nodes with the same nodeid.
DuplicateNodeid(d) ==
  \E i \in 1..Len(d.interfaces) :
    \E k, l \in 1..Len(d.interfaces[i].nodes) :
      k # l /\ d.interfaces[i].nodes[k].nodeid = d.interfaces[i].nodes[l].nodeid

HasManagement(d) ==
  /\ d.interfaces # <<>>
  /\ \E i \in 1..Len(d.interfaces) : d.interfaces[i].interface_id = d.primary_mgt

\* The named references of the BGP section, as (type, name) pairs
BgpRefs(b) ==
  SeqToSet(b.antispoofing_network)
  \cup {<<b.announced_network[i].type, b.announced_network[i].name>> :
          i \in 1..Len(b.announced_network)}
  \cup {<<"route_map", b.announced_network[i].route_map>> :
          i \in {k \in 1..Len(b.announced_network) : b.announced_network[k].route_map # None}}
  \cup {<<PeerType(b.bgp_peering[i].kind), b.bgp_peering[i].peer>> :
          i \in 1..Len(b.bgp_peering)}

UnresolvedRefs(d) == BgpRefs(d.bgp) \ Elements

BgpToValidate(d) == d.bgp.present /\ d.bgp.enabled # "false"

\* A document that breaks no rule of the desired-state model
ValidDocument(d) ==
  /\ d.state = "present"
  /\ HasManagement(d)
  /\ ~FieldMissing(d)
  /\ ~DuplicateNodeid(d)
  /\ BgpToValidate(d) => BgpVerdict(d).kind = "none"

CallsOf(op) == {i \in 1..Len(calls) : calls[i].op = op}

\* C1 (as the spec states it): when a real run of a valid document has
\* completed, the next real run of the same document against the state it
\* left reports changed = false and issues no mutating call.
C1_SecondRunUnchanged ==
  (/\ pc = "done" /\ ~check_mode /\ ValidDocument(doc)
   /\ prev.ran /\ ~prev.dry /\ prev.outcome = "done")
  => (~results.changed /\ RemoteCalls(calls) = {})

\* The second real run of a document with two peerings on one interface and
\* network: both are attached already, the run attaches them again and
\* reports a change while the remote state stays what it was.
C1_PeeringsReattached ==
  /\ pc = "done" /\ ~check_mode /\ ValidDocument(doc)
  /\ prev.ran /\ ~prev.dry /\ prev.outcome = "done"
  /\ Len(doc.bgp.bgp_peering) = 2
  /\ CallsOf("add_bgp_peering") # {}
  /\ results.changed /\ remote = start

\* C2 (as the spec states it, in the form a finite run refutes): successive
\* real runs of a valid document on an existing engine do not go round in a
\* circle.  A completed run that reports a change never puts the remote
\* state back to what it was before the previous run, which reported a
\* change too: from there the same two runs would repeat for ever and no
\* run would report changed = false.
C2_NoTwoCycle ==
  (/\ pc = "done" /\ ~check_mode /\ results.changed /\ ValidDocument(doc)
   /\ prev.ran /\ ~prev.dry /\ prev.outcome = "done" /\ prev.changed
   /\ prev.start.exists)
  => (remote = start \/ remote # prev.start)

\* C3: with state=absent a run on an existing engine issues the engine
\* delete call and nothing else and reports changed = true; a run without an
\* engine issues no call at all and reports changed = false; such a run
\* never fails.
C3_AbsentDeletesOnly ==
  doc.state = "absent" =>
    /\ pc # "failed"
    /\ pc = "done" =>
         IF start.exists
         THEN /\ calls = <<Call("engine.delete", "engine", TRUE)>>
              /\ results.changed
              /\ ~remote.exists
         ELSE /\ calls = <<>>
              /\ ~results.changed
              /\ remote = start
    /\ pc # "done" => calls = <<>>

C3_EngineDeleted ==
  /\ pc = "done" /\ doc.state = "absent" /\ start.exists
  /\ calls = <<Call("engine.delete", "engine", TRUE)>> /\ results.changed

\* C4 (as the spec states it): state=present, real run, no engine: with a
\* management interface in the document the run issues exactly one create
\* call and reports changed = true; without one it fails with no create call.
C4_CreateOriginal ==
  (Ended /\ doc.state = "present" /\ ~check_mode /\ ~start.exists)
  => IF HasManagement(doc)
     THEN /\ Cardinality(CallsOf("FirewallCluster.create")) = 1
          /\ pc = "done" /\ results.changed
     ELSE pc = "failed" /\ CallsOf("FirewallCluster.create") = {}

\* C4 (amended): state=present, real run, no engine.  A document with a
\* management interface, complete interface and node fields and a BGP
\* section that passes its checks gets exactly one create call, built from
\* the management interface plus the other interfaces, and a completed run
\* reports changed = true; a document without interfaces or without the
\* management interface fails with no create call.
C4_Create ==
  (Ended /\ doc.state = "present" /\ ~check_mode /\ ~start.exists)
  => /\ (/\ HasManagement(doc) /\ ~FieldMissing(doc)
         /\ BgpToValidate(doc) => BgpVerdict(doc).kind = "none")
        => /\ Cardinality(CallsOf("FirewallCluster.create")) = 1
           /\ calls[1].op = "FirewallCluster.create"
           /\ remote.exists
           /\ remote.interfaces = FirewallCluster_create(doc).interfaces
           /\ pc = "done" => results.changed
     /\ ~HasManagement(doc)
        => /\ pc = "failed" /\ failure.kind = "validation"
           /\ calls = <<>> /\ remote = start

C4_EngineCreated ==
  /\ pc = "done" /\ doc.state = "present" /\ ~check_mode /\ ~start.exists
  /\ Cardinality(CallsOf("FirewallCluster.create")) = 1
  /\ remote.exists /\ results.changed

\* C5 (as the spec states it): a document with an interface without
\* interface_id, or a node without address, network_value or nodeid, never
\* has a mutating call issued for it and ends in a validation error, whether
\* or not the engine exists.
C5_IncompleteRejected ==
  (doc.state = "present" /\ FieldMissing(doc))
  => /\ RemoteCalls(calls) = {}
     /\ Ended => (pc = "failed" /\ failure.kind = "validation")

\* C6 (as the spec states it): a document with two nodes of the same nodeid
\* on one interface never has a mutating call issued for it and ends in a
\* validation error.
C6_DuplicateRejected ==
  (doc.state = "present" /\ DuplicateNodeid(doc))
  => /\ RemoteCalls(calls) = {}
     /\ Ended => (pc = "failed" /\ failure.kind = "validation")

\* C7 (as the spec states it): a document whose BGP section is enabled (or
\* says nothing) and names a reference that does not resolve never
\* completes a run and never has a mutating call issued.
C7_UnresolvedOriginal ==
  (BgpToValidate(doc) /\ UnresolvedRefs(doc) # {})
  => (pc # "done" /\ RemoteCalls(calls) = {})

\* C7 (amended): with state=present, a document whose BGP section is
\* enabled (or says nothing) and names a reference that does not resolve
\* aborts: the run ends in an error, no call has been issued and the remote
\* state is the one the run started from.
C7_UnresolvedAborts ==
  (doc.state = "present" /\ BgpToValidate(doc) /\ UnresolvedRefs(doc) # {})
  => /\ pc \in {"start", "failed"}
     /\ calls = <<>>
     /\ remote = start

C7_AbortedOnReference ==
  /\ pc = "failed" /\ failure.kind = "reference"
  /\ doc.state = "present" /\ UnresolvedRefs(doc) # {}
  /\ start.exists /\ ~start.settings.bgp.status

\* C8 (as the spec states it): when reference resolution fails, the reported
\* missing list holds every unresolved name of the document.
C8_MissingListComplete ==
  (pc = "failed" /\ failure.kind = "reference")
  => SeqToSet(failure.missing) = UnresolvedRefs(doc)

\* C9 (as the spec states it): a run in check mode issues no mutating call.
C9_CheckModeIssuesNothing == check_mode => RemoteCalls(calls) = {}

\* C10 (as the spec states it): a completed check-mode run reports the
\* changed flag that the real run of the same document against the same
\* remote state reports.
C10_CheckModeFlag ==
  (/\ pc = "done" /\ ~check_mode
   /\ prev.ran /\ prev.dry /\ prev.outcome = "done" /\ prev.start = start)
  => prev.changed = results.changed

\* ---------------------------------------------------------------- C11
IsPrefix(s, t) == Len(s) <= Len(t) /\ \A i \in 1..Len(s) : s[i] = t[i]

\* C11: when a collaborator call fails (SMCException caught at the end of
\* exec_module) the run stops there: the step that fails only adds to the
\* calls made so far, and from then on the run is over -- no call follows,
\* the remote state keeps whatever was applied, and the only thing that
\* happens next is a new run.
C11_AbortsAtFailure ==
  [][ /\ (failure.kind = "remote"
            => pc = "failed" /\ pc' = "start" /\ remote' = remote /\ calls' = <<>>)
      /\ (failure.kind = "none" /\ failure'.kind = "remote"
            => pc' = "failed" /\ IsPrefix(calls, calls')) ]_vars

\* a run that failed on a collaborator call after it had changed the engine
C11_FailedAfterMutation ==
  /\ pc = "failed" /\ failure.kind = "remote"
  /\ RemoteCalls(calls) # {}
  /\ remote # start

\* ---------------------------------------------------------------- C12
\* C12: a run that fails on a collaborator call after it has applied at
\* least one mutation reports changed = true in its error result.
C12_ErrorCarriesChanged ==
  (pc = "failed" /\ failure.kind = "remote" /\ changed /\ RemoteCalls(calls) # {})
    => results.changed

\* ---------------------------------------------------------------- C13
\* a run on an existing engine that went through the interface phase
InterfaceRun ==
  doc.state = "present" /\ start.exists /\ ~check_mode /\ ~doc.skip_interfaces

DeletedIds == {calls[i].arg : i \in CallsOf("interface.delete")}

\* C13: after a completed run on an existing engine with skip_interfaces
\* false, every remote interface has an id of the document; every remote
\* interface the document does not name was deleted and changed is
\* reported; no interface the document names was deleted.
C13_UndefinedDeleted ==
  (pc = "done" /\ InterfaceRun) =>
    /\ \A id \in IfIds : remote.interfaces[id].exists
                           => id \in PlaybookKeys(doc.interfaces)
    /\ \A id \in IfIds \ PlaybookKeys(doc.interfaces) :
          start.interfaces[id].exists => id \in DeletedIds /\ results.changed
    /\ DeletedIds \cap PlaybookKeys(doc.interfaces) = {}

\* a completed run that deleted an undefined interface and kept one it had
\* created itself after the lookup had not found it
C13_DeletedAndCreated ==
  /\ pc = "done" /\ InterfaceRun
  /\ \E id \in IfIds \ PlaybookKeys(doc.interfaces) :
        start.interfaces[id].exists /\ ~remote.interfaces[id].exists
  /\ \E id \in PlaybookKeys(doc.interfaces) \cap IfIds :
        ~start.interfaces[id].exists /\ remote.interfaces[id].exists

\* ---------------------------------------------------------------- C14
InterfaceOps ==
  {"add_ipaddress_and_vlan_to_cluster", "add_cluster_virtual_interface",
   "add_vlan_to_cluster", "change_cluster_interface", "reset_interface",
   "interface.update", "interface.delete", "route.delete", "route_network.delete"}

\* C14: with skip_interfaces true on an existing engine the run issues no
\* interface create, change, reset, update or delete and no route deletion;
\* the remote interfaces, their VLANs and addresses and the routing table
\* stay as the run found them, whatever the document lists.
C14_SkipInterfaces ==
  (doc.state = "present" /\ start.exists /\ doc.skip_interfaces) =>
    /\ \A i \in 1..Len(calls) : calls[i].op \notin InterfaceOps
    /\ remote.interfaces = start.interfaces
    /\ remote.routes = start.routes
    /\ cleanups = <<>>

\* a completed skip_interfaces run whose document differs from the engine in
\* its interfaces: one is undefined remotely, one is missing from the document
C14_SkippedDifferences ==
  /\ pc = "done" /\ doc.state = "present" /\ start.exists /\ doc.skip_interfaces
  /\ ~check_mode
  /\ Undefined(remote, doc) # {}
  /\ \E id \in PlaybookKeys(doc.interfaces) \cap IfIds : ~remote.interfaces[id].exists

\* ---------------------------------------------------------------- C15
FlatOps == {"change_cluster_interface", "reset_interface", "add_cluster_virtual_interface"}

\* the calls of this run made on interface id with one of these operations
CallsOn(id, ops) == {i \in 1..Len(calls) : calls[i].arg = id /\ calls[i].op \in ops}

\* C15: an interface the run found as a collection of VLANs gets no flat
\* operation in that run (no change_cluster_interface, reset_interface or
\* add_cluster_virtual_interface), whatever the document asks for it.
C15_VlanCollectionNotFlattened ==
  \A id \in IfIds :
    (start.exists /\ has_vlan(start.interfaces[id])) => CallsOn(id, FlatOps) = {}

\* a completed run whose document describes interface 2 as flat with node
\* addresses while the engine holds it as a collection of VLANs
C15_FlatWantedVlanFound ==
  /\ pc = "done" /\ InterfaceRun
  /\ \E id \in PlaybookKeys(doc.interfaces) \cap IfIds :
        /\ has_vlan(start.interfaces[id])
        /\ ~is_vlan(Interfaces_get(doc.interfaces, id))
        /\ Interfaces_get(doc.interfaces, id).nodes # <<>>

\* ---------------------------------------------------------------- C16
\* the node addresses (NDIs) an interface holds
NodeAddresses(itf) == {i \in 1..Len(itf.addrs) : itf.addrs[i].nodeid # 0}

\* C16: a remote interface without VLANs that holds more node addresses
\* than the cluster has nodes is skipped: the run issues neither a change
\* nor a reset call on it, whatever the document says about it.
C16_MultiAddressSkipped ==
  \A id \in IfIds :
    (start.exists /\ ~has_vlan(start.interfaces[id])
       /\ Cardinality(NodeAddresses(start.interfaces[id])) > ClusterSize)
      => CallsOn(id, {"change_cluster_interface", "reset_interface"}) = {}

\* ---------------------------------------------------------------- C17
\* remove_routes on its own: routing tables of up to MaxRoutes entries with
\* up to MaxNets networks each, any of them flagged invalid, cleaned for
\* one or two VLAN route names.
MaxRoutes == 3
MaxNets == 2

RouteNamePool == <<VlanRouteName("2", "3"), VlanRouteName("2", "4"), <<"Interface", "2">>>>
NetPool == <<"3.3.3.0/24", "3.3.0.0/16", "4.4.4.0/24", "5.5.5.0/24">>

FlagLists == UNION {[1..n -> BOOLEAN] : n \in 1..MaxNets}

RouteEntry(name, flags) ==
  [name |-> name,
   networks |-> [k \in 1..Len(flags) |-> [network |-> NetPool[k], invalid |-> flags[k]]]]

RouteEntries == {RouteEntry(n, f) : n \in SeqToSet(RouteNamePool), f \in FlagLists}

RouteTables ==
  UNION {{t \in [1..n -> RouteEntries] :
            \A i, j \in 1..n : i # j => t[i].name # t[j].name} :
         n \in 0..(IF MaxRoutes < Len(RouteNamePool) THEN MaxRoutes
                   ELSE Len(RouteNamePool))}

RemovalLists ==
  {<<RouteNamePool[1]>>, <<RouteNamePool[2]>>,
   <<RouteNamePool[1], RouteNamePool[2]>>, <<RouteNamePool[2], RouteNamePool[1]>>}

RouteInit ==
  \E t \in RouteTables :
    /\ doc = BaseDoc
    /\ remote = [BaseRemote EXCEPT !.routes = t]
    /\ check_mode = FALSE
    /\ eng = BaseRemote.settings
    /\ pc = "routes"
    /\ changed = FALSE
    /\ results = [changed |-> FALSE]
    /\ calls = <<>>
    /\ cache = EmptyCache
    /\ pending = {}
    /\ failure = NoFailure
    /\ prev = NoPrev
    /\ start = [BaseRemote EXCEPT !.routes = t]
    /\ cleanups = <<>>

CleanedRoutes(names, rr) ==
  /\ remote' = [remote EXCEPT !.routes = rr.routes]
  /\ calls' = calls \o rr.calls
  /\ cleanups' = Append(cleanups, Cleanup(names, remote.routes, rr))

\* self.remove_routes(engine, routes_to_remove)
CleanRoutes ==
  /\ pc = "routes"
  /\ \E names \in RemovalLists : CleanedRoutes(names, remove_routes(remote.routes, names))
  /\ pc' = "cleaned"
  /\ UNCHANGED <<doc, check_mode, eng, changed, results, cache, pending, failure, prev, start>>

RouteNext == CleanRoutes

RouteSpec == RouteInit /\ [][RouteNext]_vars

StillValid(n) == ~n.invalid

\* what one remove_routes call did to one entry of the table it was given
EntryCleaned(c, r) ==
  IF r.name \notin SeqToSet(c.routes_to_remove)
  THEN r \in SeqToSet(c.after)
  ELSE IF Len(r.networks) > 1
  THEN /\ \E j \in 1..Len(c.after) :
            /\ c.after[j].name = r.name
            /\ c.after[j].networks = SelectSeq(r.networks, StillValid)
       /\ \A k \in 1..Len(r.networks) :
            r.networks[k].invalid
              <=> Call("route_network.delete", <<r.name, r.networks[k].network>>, TRUE)
                    \in SeqToSet(c.calls)
       /\ Call("route.delete", r.name, TRUE) \notin SeqToSet(c.calls)
  ELSE /\ r.name \notin RouteNames(c.after)
       /\ Call("route.delete", r.name, TRUE) \in SeqToSet(c.calls)

\* C17: route cleanup acts only on the entries named after the VLANs it was
\* given: of such an entry with more than one network it deletes exactly
\* the networks flagged invalid and keeps the entry and its valid networks;
\* such an entry with one network it deletes whole; every other entry is
\* left as it was, and nothing is added.
C17_RouteCleanup ==
  \A k \in 1..Len(cleanups) :
    /\ \A i \in 1..Len(cleanups[k].before) : EntryCleaned(cleanups[k], cleanups[k].before[i])
    /\ RouteNames(cleanups[k].after) \subseteq RouteNames(cleanups[k].before)
    /\ Len(cleanups[k].after) <= Len(cleanups[k].before)

\* a cleanup of a table that held all three kinds of entry: one named with
\* a valid and an invalid network, one named with a single valid network,
\* and one of another name with an invalid network
C17_AllThreeKinds ==
  /\ pc = "cleaned" /\ Len(cleanups) = 1
  /\ \E a, b, o \in SeqToSet(cleanups[1].before) :
        /\ a.name \in SeqToSet(cleanups[1].routes_to_remove)
        /\ Len(a.networks) = 2 /\ a.networks[1].invalid /\ ~a.networks[2].invalid
        /\ b.name \in SeqToSet(cleanups[1].routes_to_remove)
        /\ Len(b.networks) = 1 /\ ~b.networks[1].invalid
        /\ o.name \notin SeqToSet(cleanups[1].routes_to_remove)
        /\ o.networks[1].invalid
  /\ Len(cleanups[1].after) = 2

\* ---------------------------------------------------------------- C18
\* the route names this run has passed to remove_routes
Scheduled == UNION {SeqToSet(cleanups[k].routes_to_remove) : k \in 1..Len(cleanups)}

\* the run has been through the group of interface id
Visited(id) ==
  /\ InterfaceRun /\ pc \notin {"start", "try"}
  /\ id \in PlaybookKeys(doc.interfaces) \cap IfIds /\ id \notin pending

\* the VLANs the engine held on interface id that the document does not list
UndefinedVlans(id) ==
  {k \in 1..Len(start.interfaces[id].vlans) :
     Interfaces_get_vlan(Group(doc.interfaces, id),
                         start.interfaces[id].vlans[k].vlan_id) = NoYaml}

\* C18: a remote VLAN the document does not list is removed from its
\* interface and changed = true is reported; route cleanup is scheduled for
\* it exactly when it had addresses; the run has no internal fault either way.
C18_UndefinedVlanRemoved ==
  \A id \in IfIds :
    \A k \in (IF Visited(id) THEN UndefinedVlans(id) ELSE {}) :
      /\ failure.kind # "fault"
      /\ start.interfaces[id].vlans[k].vlan_id \notin VlanIds(remote.interfaces[id])
      /\ (start.interfaces[id].vlans[k].addrs # <<>>
            <=> VlanRouteName(id, start.interfaces[id].vlans[k].vlan_id) \in Scheduled)
      /\ (pc = "done" => results.changed)

\* ---------------------------------------------------------------- C19
\* the VLAN of the interface with that vlan_id (the interface has one)
VlanNow(itf, vlan_id) == itf.vlans[VlanIndex(itf.vlans, vlan_id)]

\* the run rewrote, in place, the mask of one of the addresses the VLAN had
MaskRewritten(was, now) ==
  /\ was.addrs # <<>> /\ Len(now.addrs) = Len(was.addrs)
  /\ \E j \in 1..Len(was.addrs) :
        /\ now.addrs[j].nodeid = was.addrs[j].nodeid
        /\ now.addrs[j].network_value # was.addrs[j].network_value

\* C19: when the in-place update of a remote VLAN changes the mask of any
\* of its addresses, that VLAN is scheduled for route cleanup in the same
\* run, whatever else changes on the VLAN and in whatever order.
C19_MaskChangeScheduled ==
  \A id \in IfIds :
    \A k \in (IF Visited(id) THEN 1..Len(start.interfaces[id].vlans) ELSE {}) :
      (/\ start.interfaces[id].vlans[k].vlan_id \in VlanIds(remote.interfaces[id])
       /\ MaskRewritten(start.interfaces[id].vlans[k],
                        VlanNow(remote.interfaces[id], start.interfaces[id].vlans[k].vlan_id)))
      => VlanRouteName(id, start.interfaces[id].vlans[k].vlan_id) \in Scheduled

\* a run that rewrote a mask of a VLAN and did schedule its route cleanup
C19_MaskChangeCleaned ==
  /\ pc = "done"
  /\ \E id \in IfIds :
       \E k \in (IF Visited(id) THEN 1..Len(start.interfaces[id].vlans) ELSE {}) :
         /\ start.interfaces[id].vlans[k].vlan_id \in VlanIds(remote.interfaces[id])
         /\ MaskRewritten(start.interfaces[id].vlans[k],
                          VlanNow(remote.interfaces[id], start.interfaces[id].vlans[k].vlan_id))
         /\ VlanRouteName(id, start.interfaces[id].vlans[k].vlan_id) \in Scheduled

\* ---------------------------------------------------------------- C20
Cvis(addrs) == {i \in 1..Len(addrs) : addrs[i].nodeid = 0}

\* the remote VLAN differs from its desired entry in the address of its
\* cluster virtual address and in nothing else
OnlyCviAddressDiffers(vlan, y) ==
  /\ vlan.addrs # <<>> /\ y # NoYaml /\ Truthy(y.cluster_virtual)
  /\ Cvis(vlan.addrs) # {}
  /\ \A i \in Cvis(vlan.addrs) :
        /\ vlan.addrs[i].address # y.cluster_virtual
        /\ vlan.addrs[i].network_value = y.network_value
  /\ {vlan.addrs[i] : i \in (1..Len(vlan.addrs)) \ Cvis(vlan.addrs)} = SeqToSet(y.nodes)

\* the addresses with the cluster virtual address moved and nothing else
WithCviAt(addrs, address) ==
  [i \in 1..Len(addrs) |->
     IF addrs[i].nodeid = 0 THEN [addrs[i] EXCEPT !.address = address] ELSE addrs[i]]

\* the VLANs of interface id in that case, when no VLAN of it is to be deleted
CviMoves(id) ==
  IF Visited(id) /\ UndefinedVlans(id) = {}
  THEN {k \in 1..Len(start.interfaces[id].vlans) :
          OnlyCviAddressDiffers(
            start.interfaces[id].vlans[k],
            Interfaces_get_vlan(Group(doc.interfaces, id),
                                start.interfaces[id].vlans[k].vlan_id))}
  ELSE {}

CviMoved(id, was, y) ==
  /\ failure.kind \notin {"fault", "remote"}
  /\ was.vlan_id \in VlanIds(remote.interfaces[id])
  /\ VlanNow(remote.interfaces[id], was.vlan_id).addrs = WithCviAt(was.addrs, y.cluster_virtual)
  /\ Cardinality(CallsOn(id, {"interface.update"})) = 1
  /\ VlanRouteName(id, was.vlan_id) \notin Scheduled
  /\ (pc = "done" => results.changed)

\* C20: a remote VLAN with addresses whose cluster virtual address differs
\* from the desired one, every mask and every node address being as
\* desired, gets its cluster virtual address updated and nothing else: one
\* interface update, changed = true, and no route cleanup for it.
C20_CviAddressOnly ==
  \A id \in IfIds :
    \A k \in CviMoves(id) :
      CviMoved(id, start.interfaces[id].vlans[k],
               Interfaces_get_vlan(Group(doc.interfaces, id),
                                   start.interfaces[id].vlans[k].vlan_id))

\* a completed run that moved the cluster virtual address of a VLAN that
\* has node addresses, with no route cleanup
C20_CviMovedBesideNodes ==
  /\ pc = "done" /\ cleanups = <<>>
  /\ \E id \in IfIds : \E k \in CviMoves(id) :
        /\ start.interfaces[id].vlans[k].addrs # remote.interfaces[id].vlans[k].addrs
        /\ Len(start.interfaces[id].vlans[k].addrs) > 1

\* ---------------------------------------------------------------- C21
\* the run found the engine and has been through its engine-wide settings
SettingsDone ==
  /\ doc.state = "present" /\ start.exists
  /\ pc \notin {"start", "try"}
  /\ failure.kind \notin {"validation", "reference"}

DnsDiffers ==
  SymDiff(SeqToSet(start.settings.dns), SeqToSet(doc.domain_server_address)) # {}

\* C21: on an existing engine the DNS entries are replaced by the desired
\* list, with changed = true, exactly when the current and the desired
\* address sets differ, an empty desired list included; when the sets are
\* equal nothing is done to the DNS entries.
C21_DnsReplacedOnDiff ==
  SettingsDone =>
    /\ (DnsDiffers <=> CallsOf("dns.replace") # {})
    /\ (DnsDiffers => changed /\ eng.dns = doc.domain_server_address)
    /\ (~DnsDiffers => eng.dns = start.settings.dns)

\* a run that replaced the DNS entries of the engine by another list
C21_DnsReplaced ==
  /\ pc = "done" /\ SettingsDone /\ ~check_mode
  /\ DnsDiffers /\ start.settings.dns # <<>>
  /\ remote.settings.dns = doc.domain_server_address
  /\ results.changed

\* ---------------------------------------------------------------- C22
OpsOf(cs) == [i \in 1..Len(cs) |-> cs[i].op]

\* the calls a step adds to the log
Added == SubSeq(calls', Len(calls) + 1, Len(calls'))

DesiredRouterId == IF doc.bgp.router_id = None THEN "" ELSE doc.bgp.router_id

\* the BGP block is about to run with BGP wanted enabled
BgpWanted == pc = "bgp" /\ doc.bgp.present /\ doc.bgp.enabled # "false"

\* the calls of a full re-establishment, one advertise per announced entry
Reestablishment ==
  <<"AutonomousSystem.get_or_create", "bgp.disable", "bgp.enable">>
  \o [i \in 1..Len(doc.bgp.announced_network) |-> "bgp.advertise_network"]

\* C22: with BGP enabled on the engine under another router id, the run
\* issues get-or-create of the autonomous system, disable, enable with the
\* desired router id and the resolved antispoofing set, one advertise per
\* desired announced network, then engine.update(), and turns to the
\* peerings only after that, with changed set.
C22_RouterIdReestablishes ==
  [][(BgpWanted /\ eng.bgp.status /\ eng.bgp.router_id # DesiredRouterId)
       => /\ IsPrefix(calls, calls')
          /\ OpsOf(Added) = Reestablishment \o <<"engine.update">>
          /\ \A i \in 1..Len(doc.bgp.announced_network) :
                Added[3 + i].arg = Href(doc.bgp.announced_network[i].type,
                                        doc.bgp.announced_network[i].name)
          /\ eng'.bgp.status /\ eng'.bgp.router_id = DesiredRouterId
          /\ eng'.bgp.antispoofing =
                {Href(doc.bgp.antispoofing_network[i][1], doc.bgp.antispoofing_network[i][2]) :
                   i \in 1..Len(doc.bgp.antispoofing_network)}
          /\ remote'.settings.bgp = eng'.bgp
          /\ changed' /\ pc' = "peering"]_vars

\* the run has re-established BGP under the desired router id, on an engine
\* that had BGP enabled under another one, and is about to look at peerings
C22_RouterIdChanged ==
  /\ pc = "peering" /\ start.exists /\ start.settings.bgp.status
  /\ start.settings.bgp.router_id # DesiredRouterId
  /\ remote.settings.bgp.router_id = DesiredRouterId
  /\ CallsOf("bgp.enable") # {} /\ CallsOf("BGPPeering.get_or_create") = {}

\* ---------------------------------------------------------------- C23
InterfaceMutations == InterfaceOps \ {"route.delete", "route_network.delete"}

\* C23: within a run every peering attachment comes after every interface
\* create, change, reset, VLAN update and undefined-interface delete; no
\* interface is touched once the first peering has been attached.
C23_PeeringsAfterInterfaces ==
  \A i \in CallsOf("add_bgp_peering") :
    \A j \in 1..Len(calls) : calls[j].op \in InterfaceMutations => j < i

\* a run that created the interface of a peering, deleted an undefined
\* interface and then attached the peering to the new interface
C23_AttachedToNewInterface ==
  /\ pc = "done"
  /\ \E i \in CallsOf("add_bgp_peering") :
        /\ ~start.interfaces[calls[i].arg].exists
        /\ \E j \in CallsOf("add_cluster_virtual_interface") : calls[j].arg = calls[i].arg
  /\ CallsOf("interface.delete") # {}

\* ---------------------------------------------------------------- C24
BgpSetupCalls == CallsOf("bgp.enable") \cup CallsOf("bgp.advertise_network")

PeeringCalls == CallsOf("BGPPeering.get_or_create") \cup CallsOf("add_bgp_peering")

\* C24: when the run has re-established BGP, an engine.update() follows
\* the last enable or advertise call and precedes every peering call.
C24_PersistBeforePeerings ==
  BgpSetupCalls # {} =>
    \E u \in CallsOf("engine.update") :
      /\ \A i \in BgpSetupCalls : i < u
      /\ \A p \in PeeringCalls : u < p

\* a run that re-established BGP on an engine that had it and then went on
\* to attach a peering
C24_ReestablishedThenPeered ==
  /\ pc = "done" /\ start.exists /\ start.settings.bgp.status
  /\ BgpSetupCalls # {} /\ CallsOf("add_bgp_peering") # {}

\* ---------------------------------------------------------------- C25
\* the desired antispoofing handles and the desired map from announced
\* network handle to route map handle (no route map: no handle)
DesiredAntispoofing ==
  {Href(doc.bgp.antispoofing_network[i][1], doc.bgp.antispoofing_network[i][2]) :
     i \in 1..Len(doc.bgp.antispoofing_network)}

DesiredAnnounced ==
  {<<Href(doc.bgp.announced_network[i].type, doc.bgp.announced_network[i].name),
     IF doc.bgp.announced_network[i].route_map = None THEN NoHref
     ELSE Href("route_map", doc.bgp.announced_network[i].route_map)>> :
     i \in 1..Len(doc.bgp.announced_network)}

AnnouncedBy(bgp) ==
  {<<bgp.announced[i].network, bgp.announced[i].route_map>> : i \in 1..Len(bgp.announced)}

BgpDiffers(bgp) ==
  \/ bgp.router_id # DesiredRouterId
  \/ (doc.bgp.bgp_profile # None /\ doc.bgp.bgp_profile # bgp.profile)
  \/ bgp.antispoofing # DesiredAntispoofing
  \/ AnnouncedBy(bgp) # DesiredAnnounced

BgpSetupOps == {"bgp.disable", "bgp.enable", "bgp.advertise_network"}

\* C25: with BGP wanted enabled, BGP is re-established (disable, enable,
\* advertise) exactly when the router id, the profile name if given, the
\* set of antispoofing handles or the announced map differs from what the
\* engine has, whatever the order of the desired lists; when none differs
\* no disable, enable or advertise call is made.
C25_ReestablishIffDiffers ==
  [][BgpWanted =>
       /\ IsPrefix(calls, calls')
       /\ IF BgpDiffers(eng.bgp)
          THEN /\ Len(Added) >= Len(Reestablishment)
               /\ SubSeq(OpsOf(Added), 1, Len(Reestablishment)) = Reestablishment
          ELSE \A i \in 1..Len(Added) : Added[i].op \notin BgpSetupOps]_vars

\* the BGP block found nothing to do although the document lists both the
\* antispoofing and the announced entries in another order than the engine
C25_OtherOrderNoCall ==
  /\ pc = "peering" /\ start.exists /\ start.settings.bgp.status
  /\ doc.bgp.present /\ doc.bgp.antispoofing_network = Spoof2r
  /\ doc.bgp.announced_network = Ann2r
  /\ \A i \in 1..Len(calls) : calls[i].op \notin BgpSetupOps

\* ---------------------------------------------------------------- C26
\* C26: a completed run whose document names a BGP profile other than the
\* one the engine has leaves the engine with the desired profile, so that
\* the next run of the same document finds nothing to re-establish.
C26_ProfileApplied ==
  (/\ pc = "done" /\ ~check_mode /\ doc.state = "present"
   /\ doc.bgp.present /\ doc.bgp.enabled # "false"
   /\ doc.bgp.bgp_profile # None
   /\ start.settings.bgp.profile # doc.bgp.bgp_profile)
  => remote.settings.bgp.profile = doc.bgp.bgp_profile

\* ---------------------------------------------------------------- C27
\* C27: once the run has re-established BGP the engine announces exactly
\* the desired networks with their route maps: nothing announced before
\* and not desired is left, and every desired network is announced.
C27_AnnouncedReplaced ==
  CallsOf("bgp.enable") # {} =>
    /\ AnnouncedBy(remote.settings.bgp) = DesiredAnnounced
    /\ AnnouncedBy(eng.bgp) = DesiredAnnounced

\* a re-establishment on an engine that announced a network the document
\* does not list
C27_DroppedAnnounced ==
  /\ CallsOf("bgp.enable") # {} /\ start.exists /\ start.settings.bgp.status
  /\ AnnouncedBy(start.settings.bgp) \ DesiredAnnounced # {}
  /\ DesiredAnnounced # {}

\* ---------------------------------------------------------------- C28
\* the peerings of the document that the engine, as the run found it, has
\* attached under the same name to the same network of the same interface
AlreadyAttached ==
  {i \in 1..Len(doc.bgp.bgp_peering) :
     [interface_id |-> doc.bgp.bgp_peering[i].interface_id,
      network |-> doc.bgp.bgp_peering[i].network,
      name |-> doc.bgp.bgp_peering[i].name] \in start.peerings}

\* C28: a desired peering that is already attached under its name to its
\* network of its interface is not attached again and sets no changed
\* flag, whatever other peerings or networks the interface carries; a
\* desired peering that is not attached there is attached: the run makes
\* one attach call for each desired peering it did not find attached.
C28_AttachIffMissing ==
  (/\ pc = "done" /\ ~check_mode /\ doc.state = "present" /\ start.exists
   /\ doc.bgp.present /\ doc.bgp.enabled # "false")
  => /\ Cardinality(CallsOf("add_bgp_peering"))
          = Len(doc.bgp.bgp_peering) - Cardinality(AlreadyAttached)
     /\ (AlreadyAttached = 1..Len(doc.bgp.bgp_peering)
           /\ (\A k \in 1..Len(calls) :
                 \/ calls[k].op = "add_bgp_peering"
                 \/ calls[k].op = "change_cluster_interface" /\ ~calls[k].remote))
          => ~results.changed

\* a completed run that found its one desired peering attached and attached
\* nothing
C28_FoundAttached ==
  /\ pc = "done" /\ ~check_mode /\ start.exists
  /\ doc.bgp.present /\ Len(doc.bgp.bgp_peering) = 1 /\ AlreadyAttached = {1}
  /\ CallsOf("add_bgp_peering") = {}

\* ---------------------------------------------------------------- C29
ToggleCall(op, t) == Call(op, t, FALSE)

SettingsStep == pc = "try" /\ doc.state = "present" /\ remote.exists

SnmpCall(op) == Call(op, "snmp", FALSE)

SnmpAdded(op) == \E i \in 1..Len(Added) : Added[i] = SnmpCall(op)

\* the agent name, the location or the set of interface ids, taken as
\* strings, of the engine is not the desired one
SnmpDiffers ==
  \/ eng.snmp.agent # (IF doc.snmp.snmp_agent = None THEN "" ELSE doc.snmp.snmp_agent)
  \/ eng.snmp.location # doc.snmp.snmp_location
  \/ eng.snmp.interfaces # {str(doc.snmp.snmp_interface[i]) :
                              i \in 1..Len(doc.snmp.snmp_interface)}

\* C30: on an existing engine, with an SNMP section in the document: with
\* enabled = false, disable is called exactly when SNMP is enabled; with
\* enabled true or unspecified and SNMP disabled, enable is called; with
\* SNMP enabled already, enable is called again exactly when the agent
\* name, the location or the set of interface ids (as strings, in any
\* order) differs from the desired one; and when the step makes no SNMP
\* call, and no other call than the persist, changed is not set.
C30_SnmpFollowsStatus ==
  [][(SettingsStep /\ doc.snmp.present) =>
       /\ doc.snmp.enabled = "false"
            => (SnmpAdded("disable") <=> eng.snmp.status) /\ ~SnmpAdded("enable")
       /\ (doc.snmp.enabled # "false" /\ ~eng.snmp.status)
            => SnmpAdded("enable") /\ ~SnmpAdded("disable")
       /\ (doc.snmp.enabled # "false" /\ eng.snmp.status)
            => (SnmpAdded("enable") <=> SnmpDiffers) /\ ~SnmpAdded("disable")
       /\ (\A i \in 1..Len(Added) : Added[i].op = "engine.update")
            => ~changed']_vars

\* a run that found SNMP enabled on interfaces 1 and 2 and made no call,
\* the document listing them as the integer 2 and the string '1'
C30_SameInterfacesOtherOrder ==
  /\ pc = "done" /\ ~check_mode /\ start.exists /\ doc.state = "present"
  /\ doc.snmp.present /\ doc.snmp.enabled = None
  /\ doc.snmp.snmp_interface = <<YamlInt(2), YamlStr("1")>>
  /\ start.settings.snmp.status /\ start.settings.snmp.interfaces = {"1", "2"}
  /\ \A i \in 1..Len(calls) : calls[i].arg # "snmp" /\ calls[i].op # "engine.update"
  /\ ~results.changed

\* ---------------------------------------------------------------- C31
\* a definition with no vlan_id, no cluster-virtual address with mask and
\* MAC, and no nodes
Placeholder(y) ==
  /\ ~Truthy(y.vlan_id)
  /\ ~(Truthy(y.cluster_virtual) /\ Truthy(y.network_value) /\ Truthy(y.macaddress))
  /\ y.nodes = <<>>

CreateOps ==
  {"add_cluster_virtual_interface", "add_vlan_to_cluster",
   "add_ipaddress_and_vlan_to_cluster"}

\* the ids the document gives one definition, a placeholder, and the
\* engine did not have when the run started
MissingPlaceholders ==
  {id \in PlaybookKeys(doc.interfaces) \cap IfIds :
     /\ ~start.interfaces[id].exists
     /\ Len(Group(doc.interfaces, id)) = 1
     /\ Placeholder(Interfaces_get(doc.interfaces, id))}

\* C31: a desired interface the engine does not have, whose definition is
\* a placeholder, gets no create call in the run, and a run that makes no
\* call that changes the engine reports no change.
C31_PlaceholderNotCreated ==
  (pc = "done" /\ InterfaceRun)
    => /\ \A id \in MissingPlaceholders : CallsOn(id, CreateOps) = {}
       /\ (MissingPlaceholders # {}
             /\ \A i \in 1..Len(calls) :
                   calls[i].remote => calls[i].op \in CreateOps
                                       /\ calls[i].arg \in MissingPlaceholders)
            => ~results.changed

\* a completed run whose document names a placeholder interface the
\* engine did not have
C31_PlaceholderMissing ==
  pc = "done" /\ InterfaceRun /\ MissingPlaceholders # {} /\ failure.kind = "none"

\* ---------------------------------------------------------------- C32
\* the interfaces the run found without addresses and without VLANs whose
\* group in the document has a VLAN definition
ReservedForVlans ==
  {id \in PlaybookKeys(doc.interfaces) \cap IfIds :
     /\ start.interfaces[id].exists
     /\ ~has_interfaces(start.interfaces[id]) /\ ~has_vlan(start.interfaces[id])
     /\ Interfaces_vlan_ids(Group(doc.interfaces, id)) # <<>>}

\* C32: an interface the run found without addresses and without VLANs
\* has, once the run has completed, every VLAN its group in the document
\* defines, wherever in the group the definition stands.
C32_EveryVlanCreated ==
  (pc = "done" /\ InterfaceRun /\ failure.kind = "none")
    => \A id \in ReservedForVlans :
         SeqToSet(Interfaces_vlan_ids(Group(doc.interfaces, id)))
           \subseteq VlanIds(remote.interfaces[id])

\* a completed run that made the first VLAN of a group of two on an
\* interface it found without addresses and without VLANs
C32_FirstVlanCreated ==
  /\ pc = "done" /\ InterfaceRun /\ failure.kind = "none"
  /\ \E id \in ReservedForVlans :
       /\ Len(Interfaces_vlan_ids(Group(doc.interfaces, id))) = 2
       /\ CallsOn(id, {"add_ipaddress_and_vlan_to_cluster"}) # {}
       /\ Interfaces_vlan_ids(Group(doc.interfaces, id))[1]
            \in VlanIds(remote.interfaces[id])

\* ---------------------------------------------------------------- C33
\* the interfaces of the document the run found as a collection of VLANs
VlanCollections ==
  {id \in PlaybookKeys(doc.interfaces) \cap IfIds : has_vlan(start.interfaces[id])}

\* a VLAN of the interface was created, modified or deleted by the run
VlansTouched(id) == remote.interfaces[id].vlans # start.interfaces[id].vlans

\* C33: for an interface the run found as a collection of VLANs, the run
\* makes one interface update call and reports a change when a VLAN of
\* the collection was created, modified or deleted, and makes no update
\* call when none was, a desired VLAN without cluster-virtual address and
\* nodes that the engine lacks included; a run that makes no other call
\* that changes the engine then reports no change.
C33_UpdateIffVlanTouched ==
  (pc = "done" /\ InterfaceRun /\ failure.kind = "none")
    => \A id \in VlanCollections :
         /\ VlansTouched(id)
              => Cardinality(CallsOn(id, {"interface.update"})) = 1 /\ results.changed
         /\ ~VlansTouched(id)
              => /\ CallsOn(id, {"interface.update"}) = {}
                 /\ (\A i \in 1..Len(calls) : ~calls[i].remote) => ~results.changed

\* a completed run on a collection of VLANs whose document adds a VLAN
\* without cluster-virtual address and nodes
C33_BareVlanMissing ==
  /\ pc = "done" /\ InterfaceRun /\ failure.kind = "none"
  /\ \E id \in VlanCollections :
       \E k \in 1..Len(Group(doc.interfaces, id)) :
         /\ is_vlan(Group(doc.interfaces, id)[k])
         /\ Group(doc.interfaces, id)[k].vlan_id \notin VlanIds(start.interfaces[id])
         /\ Group(doc.interfaces, id)[k].cluster_virtual = None
         /\ Group(doc.interfaces, id)[k].nodes = <<>>
         /\ ~VlansTouched(id)

\* ---------------------------------------------------------------- C34
\* the VLANs the engine held with addresses on interface id whose
\* definition in the document declares no nodes
Nodeless(id) ==
  {k \in 1..Len(start.interfaces[id].vlans) :
     /\ start.interfaces[id].vlans[k].addrs # <<>>
     /\ Interfaces_get_vlan(Group(doc.interfaces, id),
                            start.interfaces[id].vlans[k].vlan_id) # NoYaml
     /\ Interfaces_get_vlan(Group(doc.interfaces, id),
                            start.interfaces[id].vlans[k].vlan_id).nodes = <<>>}

\* C34: a remote VLAN with addresses whose definition in the document
\* declares no nodes has no address left once the run has been through its
\* interface, changed is set and the VLAN is scheduled for route cleanup;
\* a cluster-virtual address in the definition changes nothing to that:
\* the CVI of the engine goes with the rest.
C34_NodelessVlanCleared ==
  \A id \in IfIds :
    \A k \in (IF Visited(id) /\ failure.kind = "none" THEN Nodeless(id) ELSE {}) :
      /\ start.interfaces[id].vlans[k].vlan_id \in VlanIds(remote.interfaces[id])
      /\ VlanNow(remote.interfaces[id], start.interfaces[id].vlans[k].vlan_id).addrs = <<>>
      /\ changed
      /\ CallsOn(id, {"interface.update"}) # {}
      /\ VlanRouteName(id, start.interfaces[id].vlans[k].vlan_id) \in Scheduled

\* a completed run that cleared a VLAN holding a cluster-virtual address
\* while the document declares a cluster-virtual address and no nodes for it
C34_CviRemoved ==
  /\ pc = "done" /\ failure.kind = "none" /\ results.changed
  /\ \E id \in IfIds :
       \E k \in (IF Visited(id) THEN Nodeless(id) ELSE {}) :
         /\ \E j \in 1..Len(start.interfaces[id].vlans[k].addrs) :
              start.interfaces[id].vlans[k].addrs[j].nodeid = 0
         /\ Truthy(Interfaces_get_vlan(Group(doc.interfaces, id),
                       start.interfaces[id].vlans[k].vlan_id).cluster_virtual)
         /\ VlanNow(remote.interfaces[id], start.interfaces[id].vlans[k].vlan_id).addrs = <<>>

\* ---------------------------------------------------------------- C35
ManagementOps == {"set_primary_mgt", "set_backup_mgt", "set_primary_heartbeat"}

ManagementCalls == {i \in 1..Len(calls) : calls[i].op \in ManagementOps}

\* the calls that create or update an interface of the document
DesiredInterfaceCalls ==
  {i \in 1..Len(calls) : calls[i].op \in InterfaceMutations \ {"interface.delete"}}

\* C35: on an existing engine the management settings are set to the
\* desired values after every call that creates or updates a desired
\* interface and before every deletion of an undefined interface, and the
\* interface that is the primary management when the undefined interfaces
\* are deleted is not among the deleted ones.
C35_ManagementKept ==
  (InterfaceRun /\ pc \in {"bgp", "peering", "tags", "done"})
    => /\ \A m \in ManagementCalls :
            /\ \A i \in DesiredInterfaceCalls : i < m
            /\ \A d \in CallsOf("interface.delete") : m < d
       /\ remote.options.primary_mgt = doc.primary_mgt
       /\ remote.options.backup_mgt = doc.backup_mgt
       /\ remote.options.primary_heartbeat = doc.primary_heartbeat
       /\ remote.options.primary_mgt \notin DeletedIds

\* a completed run that moved the primary management to an interface it
\* had just created and then deleted an interface the document omits
C35_ManagementMoved ==
  /\ pc = "done" /\ InterfaceRun /\ failure.kind = "none"
  /\ CallsOf("set_primary_mgt") # {} /\ DeletedIds # {}
  /\ ~start.interfaces[doc.primary_mgt].exists
  /\ remote.interfaces[doc.primary_mgt].exists
  /\ remote.options.primary_mgt = doc.primary_mgt

\* ---------------------------------------------------------------- C36
\* the calls of the run that change the engine or an element of the
\* management service, or the engine data the run goes on to store
MutatingCalls ==
  {i \in 1..Len(calls) :
     \/ calls[i].remote
     \/ calls[i].op \in BgpSetupOps}

\* C36: a run that completes outside check mode and made a mutating call
\* reports changed = true, and the changed flag of a run, once true, stays
\* true to the end of the run.
C36_ChangedSound ==
  /\ []((pc = "done" /\ ~check_mode /\ MutatingCalls # {}) => results.changed)
  /\ [][(changed /\ pc \notin {"done", "failed"}) => changed']_vars

\* a completed run whose one mutating call deleted an interface the
\* document does not name
C36_OnlyADeletion ==
  /\ pc = "done" /\ ~check_mode /\ results.changed
  /\ Cardinality(MutatingCalls) = 1
  /\ \A i \in MutatingCalls : calls[i].op = "interface.delete"

====
